---- MODULE Spec2Model ----
(***************************************************************************)
(* SiegPy notebooks: the basis-set container of the siegpy library as the  *)
(* notebooks use it, and the notebooks' own functions and loops            *)
(* (SSE_errors / print_errors, the exact-time-propagation convergence      *)
(* study, the strength-function convergence study).                        *)
(*                                                                         *)
(* Wavenumbers, times and lengths are integers in a fixed unit; a value    *)
(* computed by the numerical routines (a propagated wavepacket, a strength *)
(* function) is represented by what it was computed from.                  *)
(***************************************************************************)
EXTENDS Integers, Sequences, FiniteSets, TLC

(***************************************************************************)
(* Bounds of the model                                                     *)
(***************************************************************************)
MaxNres == 2        \* largest nres argument of from_file / SSE_errors
MaxNx == 2          \* largest number of space grid points
MaxNT == 3          \* longest time grid
MaxHk == 1          \* largest wavenumber step h_k of SSE_errors
MaxKmax == 4        \* wavenumber cutoff k_max of SSE_errors

(***************************************************************************)
(* Library layer: potential, states, basis sets                            *)
(***************************************************************************)
Types == {"b", "ab", "r", "ar", "c"}

Files == {"siegerts.dat", "other.dat"}

PotIds == Files \cup {"pot"}

\* from_file(filename) without the nres keyword
NoNres == -1

NoGrid == [den |-> 0, pts |-> <<>>]

\* np.linspace(-l/2, l/2, nx): the points as numerators over den = 2*(nx-1)
Linspace(l, nx) ==
    [den |-> 2 * (nx - 1),
     pts |-> [i \in 1..nx |-> 2 * l * (i - 1) - l * (nx - 1)]]

SWPotential(w, d) == [width |-> w, depth |-> d]

InitPots ==
    [p \in PotIds |->
        IF p = "siegerts.dat" THEN SWPotential(4, 10)
        ELSE IF p = "other.dat" THEN SWPotential(6, 10)
        ELSE SWPotential(3, 8)]

State(ty, k, par, p, g) == [type |-> ty, k |-> k, par |-> par, pot |-> p, grid |-> g]

Take(s, n) == SubSeq(s, 1, IF n < Len(s) THEN n ELSE Len(s))

Filter(b, ty) == SelectSeq(b, LAMBDA s : s.type = ty)

bounds(b) == Filter(b, "b")
antibounds(b) == Filter(b, "ab")
resonants(b) == Filter(b, "r")
antiresonants(b) == Filter(b, "ar")
continuum(b) == Filter(b, "c")

\* a + b
Concat(a, b) == a \o b

\* the left operand extended in place by the right one
Add_left_extended(a, b) == a \o b

\* what a holds after  a + b
Add_left_after(a, b) == a

\* what b holds after  a + b
Add_right_after(a, b) == b

\* what a basis set holds after one of its filters (.bounds, .resonants, ...) is read
Filter_source_after(b, ty) == b

\* the states of a basis set come from one potential
SamePotential(b) == \A i, j \in 1..Len(b) : b[i].pot = b[j].pot

\* basis.potential
BasisPotential(b) == b[1].pot

\* a data file of Siegert states: nb bound and nab antibound states and nc
\* resonant couples of the potential p, in the order of the file
FileStates(p, nb, nab, nc) ==
    LET S(ty, k) == State(ty, k, "-", p, NoGrid)
    IN [i \in 1..nab |-> S("ab", i)]
       \o [i \in 1..(2 * nc) |-> IF i % 2 = 1 THEN S("r", (i + 1) \div 2) ELSE S("ar", i \div 2)]
       \o [i \in 1..nb |-> S("b", i)]

\* the two data files of the error-estimation study
ReadFile(f) ==
    IF f = "siegerts.dat" THEN FileStates(f, 2, 1, 3) ELSE FileStates(f, 1, 1, 2)

\* SWPBasisSet.from_file(filename, nres=nres), the file holding the states all
FromFile(all, nres) ==
    IF nres = NoNres THEN all
    ELSE bounds(all) \o antibounds(all)
         \o Take(resonants(all), nres) \o Take(antiresonants(all), nres)

\* the number of points of np.arange(hk, kmax, hk)
ArangeLen(kmax, hk) == IF kmax > hk THEN (kmax - 1) \div hk ELSE 0

\* SWPBasisSet.find_continuum_states(potential, kmax, hk, even_only=..., grid=...)
FindContinuumStates(p, kmax, hk, even_only, g) ==
    LET n == ArangeLen(kmax, hk)
        even == [i \in 1..n |-> State("c", i * hk, "e", p, g)]
        odd == [i \in 1..n |-> State("c", i * hk, "o", p, g)]
    IN IF even_only THEN even ELSE even \o odd

\* the potential is cut to the grid it is discretized on
PotsAfterSetGrid_cut(P, p, g) == [P EXCEPT ![p].width = Len(g.pts)]

\* the potentials after  s.grid = g  for the states of the potential p
PotsAfterSetGrid(P, p, g) == P

\* the state is built anew on the grid and comes out as a continuum state
WithGrid_retyped(s, g) == [s EXCEPT !.grid = g, !.type = "c"]

\* s.grid = xgrid
WithGrid(s, g) == [s EXCEPT !.grid = g]

\* the number of space points of the wavefunctions of a basis set
GridLen(b) == IF b = <<>> THEN 0 ELSE Len(b[1].grid.pts)

\* basis.<kind>_propagation(test_func, time_grid): one wavepacket per time
Propagation(kind, b, tgrid) ==
    [i \in 1..Len(tgrid) |-> [by |-> kind, t |-> tgrid[i], nx |-> GridLen(b)]]


\* Floating-point numbers are m * 2^e with FloatBits bits in m, rounded to the
\* nearest, ties to even.  The binary expansion of a tenth (and of a twentieth)
\* has period 4, and a mantissa of 9 bits rounds the quotients of tenths and of
\* twentieths met here as the 53 bits of a double do.
FloatBits == 9

RECURSIVE Pow2(_)
Pow2(n) == IF n <= 0 THEN 1 ELSE 2 * Pow2(n - 1)

Float(m, e) == [m |-> m, e |-> e]

FloatExps == (0 - 16)..8

\* the float nearest to the rational n/d (n >= 0, d > 0)
Fl(n, d) ==
    IF n = 0 THEN Float(0, 0)
    ELSE LET lo == Pow2(FloatBits - 1)
             hi == Pow2(FloatBits)
             Num(e) == n * Pow2(0 - e)
             Den(e) == d * Pow2(e)
             \* the products below stay within 32-bit integers
             Fits(x) == n <= 2147483647 \div Pow2(0 - x) /\ d <= 2147483647 \div (hi * Pow2(x))
             e == CHOOSE x \in FloatExps :
                     Fits(x) /\ lo * Den(x) <= Num(x) /\ Num(x) < hi * Den(x)
             q == Num(e) \div Den(e)
             r == Num(e) % Den(e)
             up == 2 * r > Den(e) \/ (2 * r = Den(e) /\ q % 2 = 1)
             m == IF up THEN q + 1 ELSE q
         IN IF m = hi THEN Float(lo, e + 1) ELSE Float(m, e)

\* a - b of two floats, a >= b
FSub(a, b) ==
    LET e == IF a.e < b.e THEN a.e ELSE b.e
    IN Fl(a.m * Pow2(a.e - e) - b.m * Pow2(b.e - e), Pow2(0 - e))

\* a / b of two floats, b > 0
FDiv(a, b) == Fl(a.m * Pow2(a.e - b.e), b.m * Pow2(b.e - a.e))

\* int(a) of a float a >= 0
FInt(a) == IF a.e >= 0 THEN a.m * Pow2(a.e) ELSE a.m \div Pow2(0 - a.e)

\* math.ceil(a) of a float a >= 0
FCeil(a) ==
    IF a.e >= 0 THEN a.m * Pow2(a.e)
    ELSE (a.m + Pow2(0 - a.e) - 1) \div Pow2(0 - a.e)

\* a length as a fraction: numerator, denominator
Frac(n, d) == << n, d >>

\* Rectangular.from_width_and_center(a, x_c)
Rectangular_from_width_and_center(a, x_c) == [width |-> a, center |-> x_c]

NoRect == Rectangular_from_width_and_center(Frac(0, 1), Frac(0, 1))

(***************************************************************************)
(* State                                                                   *)
(***************************************************************************)
VARIABLES
    pots,            \* the potentials: width and depth of each
    g_time_grid,     \* module-level time_grid of the error-estimation notebook
    g_siegerts,      \* module-level siegerts of the error-estimation notebook
    g_potential,     \* module-level potential of the error-estimation notebook
    g_choice_default, \* the dictionary made once as the default of choice in SSE_errors
    sse_pc,          \* position inside SSE_errors
    sse_args,        \* filename, nres, k_max, h_k, nx, time_grid, choice
    sse_siegerts,    \* local siegerts
    sse_potential,   \* local potential
    sse_l,           \* local l
    sse_xgrid,       \* local xgrid
    sse_dx,          \* local dx (numerator over sse_xgrid.den)
    sse_cont,        \* local cont
    sse_exact,       \* local exact
    sse_tp,          \* exact_tp, exact_S_tp, MLE_tp, Ber_tp
    sse_out,         \* what the call has printed
    sf_pc,           \* position in the strength-function notebook
    sf_file,         \* what siegerts.dat holds there: nb, nab, nc
    sf_siegerts,     \* siegerts
    sf_l,            \* l
    sf_test_rect,    \* test_rect
    sf_kgrid,        \* kgrid
    sf_bnds_abnds,   \* bnds_abnds
    sf_res,          \* res
    sf_ares,         \* ares
    sf_b_a_MLE,      \* b_a_MLE_g and b_a_MLE_r
    sf_r_MLE,        \* r_MLE_g and r_MLE_r
    sf_i,            \* position in the list the plotting loop runs over
    sf_plots,        \* the curves plotted so far
    tp_pc,           \* position in the exact-time-propagation notebook
    tp_found,        \* how many bound and antibound states the potential has
    tp_h_ks,         \* h_ks
    tp_k_maxs,       \* k_maxs
    tp_xgrid,        \* xgrid
    tp_siegerts,     \* siegerts
    tp_bnds,         \* bnds
    tp_conts,        \* conts, each with the h and k it was built from
    tp_exacts,       \* exacts, likewise
    tp_exact_tps,    \* exact_tps, likewise
    tp_i_h,          \* i_h of the running loop
    tp_i_k,          \* i_k of the running loop
    tp_ref,          \* ref of the running cell, with the h and k it was built from
    tp_plots,        \* the curves plotted by the running cell
    tp_gauss,        \* gauss, the test function
    tp_i_t,          \* i_t of the running cell
    tp_i_b_ref,      \* i_b_ref of the running cell
    cr_pc,           \* position in the completeness-relation notebook
    cr_first,        \* where the library starts its wavenumber grids: at zero or at the step
    cr_all_h_k,      \* all_h_k, in tenths
    cr_k_max,        \* k_max, in tenths
    cr_siegerts,     \* siegerts
    cr_test_rect,    \* test_rect
    cr_results,      \* CR_conv_exacts, each with the step it was computed with
    cr_n,            \* how many elements the running loop has gone through
    cr_i,            \* i
    cr_ref,          \* k_grid_ref and ref
    cr_plots         \* the curves plotted by the running cell

sseVars == << g_time_grid, g_siegerts, g_potential, g_choice_default, sse_pc, sse_args, sse_siegerts,
              sse_potential, sse_l, sse_xgrid, sse_dx, sse_cont, sse_exact, sse_tp,
              sse_out >>

sfVars == << sf_pc, sf_file, sf_test_rect, sf_siegerts, sf_l, sf_kgrid, sf_bnds_abnds, sf_res, sf_ares,
             sf_b_a_MLE, sf_r_MLE, sf_i, sf_plots >>

tpVars == << tp_pc, tp_found, tp_h_ks, tp_k_maxs, tp_xgrid, tp_siegerts, tp_bnds, tp_conts,
             tp_exacts, tp_exact_tps, tp_i_h, tp_i_k, tp_ref, tp_plots, tp_gauss, tp_i_t,
             tp_i_b_ref >>

\* the names only the later cells of that notebook assign
tpLate == << tp_gauss, tp_i_t, tp_i_b_ref >>

crVars == << cr_pc, cr_first, cr_test_rect, cr_all_h_k, cr_k_max, cr_siegerts, cr_results, cr_n, cr_i,
            cr_ref, cr_plots >>

vars == << pots, sseVars, sfVars, tpVars, crVars >>

(***************************************************************************)
(* time_propagation_error_estimation_convergence.ipynb                     *)
(***************************************************************************)
TimeGrids == { [i \in 1..n |-> (i - 1) * s] : n \in 1..MaxNT, s \in 1..2 }

Choices == [exact : BOOLEAN, MLE : BOOLEAN, Ber : BOOLEAN]

Kinds == {"exact", "exact_S", "MLE", "Ber"}

NoArgs == [filename |-> "siegerts.dat", nres |-> 0, k_max |-> 0, h_k |-> 0, nx |-> 0,
           time_grid |-> <<>>, choice |-> [exact |-> FALSE, MLE |-> FALSE, Ber |-> FALSE],
           by_default |-> FALSE]

\* choice={'exact': True, 'MLE': True, 'Ber': True} of the def statement
SSE_choice_default == [exact |-> TRUE, MLE |-> TRUE, Ber |-> TRUE]

\* the flags are taken out of the dictionary as they are read
SSE_choice_popped(ch) == [exact |-> FALSE, MLE |-> FALSE, Ber |-> FALSE]

\* the dictionary choice after the reads choice['exact'], choice['MLE'], choice['Ber']
SSE_choice_after(ch) == ch

NoTp == [kd \in Kinds |-> <<>>]

Entry(kind, label, t, te, ts) ==
    [kind |-> kind, label |-> label, t |-> t, te |-> te, ts |-> ts]

Min(a, b) == IF a < b THEN a ELSE b

\* the name time_grid inside print_errors
print_errors_time_grid == g_time_grid

\* print_errors(exact, siegert_exp, dx): the lines printed, and whether the
\* function returned (ok) or an index went out of range
print_errors(exact, siegert_exp, dx) ==
    LET tg == print_errors_time_grid
        m == Min(Len(exact), Len(siegert_exp))
        n == Min(Len(tg), m)
        rows == [i \in 1..n |->
                    Entry("row", siegert_exp[i].by, tg[i], exact[i].t, siegert_exp[i].t)]
        head == << Entry("head", "", 0, 0, 0) >>
        tail == << Entry("end", "", 0, 0, 0) >>
    IN IF Len(tg) <= m
       THEN [lines |-> head \o rows \o tail, ok |-> TRUE]
       ELSE [lines |-> head \o rows, ok |-> FALSE]

\* the module-level potential taken in place of the local one
SSE_cont_potential_global == g_potential

\* the potential handed to find_continuum_states
SSE_cont_potential == sse_potential

\* cont = SWPBasisSet.find_continuum_states(potential, k_max, h_k, grid=xgrid)
SSE_cont_basis ==
    FindContinuumStates(SSE_cont_potential, sse_args.k_max, sse_args.h_k, FALSE, sse_xgrid)

\* the operands of + exchanged
SSE_exact_basis_swapped == Concat(bounds(sse_siegerts), sse_cont)

\* exact = cont + siegerts.bounds
SSE_exact_basis == Concat(sse_cont, bounds(sse_siegerts))

\* the Mittag-Leffler expansion evaluated on the module-level time_grid
SSE_tgrid_global(kind) == IF kind = "MLE" THEN g_time_grid ELSE sse_args.time_grid

\* the time grid handed to the propagation of the given kind
SSE_tgrid(kind) == sse_args.time_grid

\* only the resonant and antiresonant states are given the grid
SSE_discretized_res ==
    [i \in 1..Len(sse_siegerts) |->
        IF sse_siegerts[i].type \in {"r", "ar"}
        THEN WithGrid(sse_siegerts[i], sse_xgrid) ELSE sse_siegerts[i]]

\* for s in siegerts: s.grid = xgrid
SSE_discretized == [i \in 1..Len(sse_siegerts) |-> WithGrid(sse_siegerts[i], sse_xgrid)]

\* a call of SSE_errors; dflt: the call leaves choice out
SSE_Call(f, nres, kmax, hk, nx, tg, ch, dflt) ==
    /\ sse_pc = "idle"
    /\ sse_pc' = "load"
    /\ sse_args' = [filename |-> f, nres |-> nres, k_max |-> kmax, h_k |-> hk, nx |-> nx,
                    time_grid |-> tg, choice |-> IF dflt THEN g_choice_default ELSE ch,
                    by_default |-> dflt]
    /\ sse_siegerts' = <<>>
    /\ sse_potential' = "none"
    /\ sse_l' = 0
    /\ sse_xgrid' = NoGrid
    /\ sse_dx' = 0
    /\ sse_cont' = <<>>
    /\ sse_exact' = <<>>
    /\ sse_tp' = NoTp
    /\ sse_out' = <<>>
    /\ UNCHANGED << sfVars, tpVars, crVars, pots, g_time_grid, g_siegerts, g_potential, g_choice_default >>

SSE_Load ==
    /\ sse_pc = "load"
    /\ sse_siegerts' = FromFile(ReadFile(sse_args.filename), sse_args.nres)
    /\ sse_pc' = "pot"
    /\ UNCHANGED << sfVars, tpVars, crVars, pots, g_time_grid, g_siegerts, g_potential, g_choice_default, sse_args, sse_potential,
                    sse_l, sse_xgrid, sse_dx, sse_cont, sse_exact, sse_tp, sse_out >>

SSE_Pot ==
    /\ sse_pc = "pot"
    /\ IF sse_siegerts = <<>>
       THEN /\ sse_pc' = "raised"
            /\ UNCHANGED << sse_potential, sse_l >>
       ELSE /\ sse_potential' = sse_siegerts[1].pot
            /\ sse_l' = pots[sse_siegerts[1].pot].width
            /\ sse_pc' = "grid"
    /\ UNCHANGED << sfVars, tpVars, crVars, pots, g_time_grid, g_siegerts, g_potential, g_choice_default, sse_args, sse_siegerts,
                    sse_xgrid, sse_dx, sse_cont, sse_exact, sse_tp, sse_out >>

SSE_Grid ==
    /\ sse_pc = "grid"
    /\ LET xg == Linspace(sse_l, sse_args.nx)
       IN /\ sse_xgrid' = xg
          /\ sse_dx' = xg.pts[2] - xg.pts[1]
    /\ sse_pc' = "disc"
    /\ UNCHANGED << sfVars, tpVars, crVars, pots, g_time_grid, g_siegerts, g_potential, g_choice_default, sse_args, sse_siegerts,
                    sse_potential, sse_l, sse_cont, sse_exact, sse_tp, sse_out >>

SSE_Disc ==
    /\ sse_pc = "disc"
    /\ sse_siegerts' = SSE_discretized
    /\ pots' = PotsAfterSetGrid(pots, sse_potential, sse_xgrid)
    /\ sse_pc' = "cont"
    /\ UNCHANGED << sfVars, tpVars, crVars, g_time_grid, g_siegerts, g_potential, g_choice_default, sse_args, sse_potential,
                    sse_l, sse_xgrid, sse_dx, sse_cont, sse_exact, sse_tp, sse_out >>

SSE_Cont ==
    /\ sse_pc = "cont"
    /\ sse_cont' = SSE_cont_basis
    /\ sse_pc' = "exact"
    /\ UNCHANGED << sfVars, tpVars, crVars, pots, g_time_grid, g_siegerts, g_potential, g_choice_default, sse_args, sse_siegerts,
                    sse_potential, sse_l, sse_xgrid, sse_dx, sse_exact, sse_tp, sse_out >>

SSE_Exact ==
    /\ sse_pc = "exact"
    /\ IF SamePotential(SSE_exact_basis)
       THEN /\ sse_exact' = SSE_exact_basis
            /\ sse_siegerts' = Filter_source_after(sse_siegerts, "b")
            /\ sse_cont' = Add_left_after(sse_cont, bounds(sse_siegerts))
            /\ sse_pc' = "exact_tp"
       ELSE /\ sse_pc' = "raised"
            /\ sse_siegerts' = Filter_source_after(sse_siegerts, "b")
            /\ UNCHANGED << sse_exact, sse_cont >>
    /\ UNCHANGED << sfVars, tpVars, crVars, pots, g_time_grid, g_siegerts, g_potential, g_choice_default, sse_args,
                    sse_potential, sse_l, sse_xgrid, sse_dx, sse_tp, sse_out >>

SSE_ExactTp ==
    /\ sse_pc = "exact_tp"
    /\ sse_tp' = [sse_tp EXCEPT !["exact"] = Propagation("exact", sse_exact, SSE_tgrid("exact"))]
    /\ sse_pc' = "if_exact"
    /\ UNCHANGED << sfVars, tpVars, crVars, pots, g_time_grid, g_siegerts, g_potential, g_choice_default, sse_args, sse_siegerts,
                    sse_potential, sse_l, sse_xgrid, sse_dx, sse_cont, sse_exact, sse_out >>

\* if choice[...]: <kind>_tp = siegerts.<kind>_propagation(test_func, time_grid);
\*                 print(<label>); print_errors(exact_tp, <kind>_tp, dx)
SSE_Expansion(here, flag, kind, label, next) ==
    /\ sse_pc = here
    /\ IF flag
       THEN LET tp == Propagation(kind, sse_siegerts, SSE_tgrid(kind))
                pr == print_errors(sse_tp["exact"], tp, sse_dx)
            IN /\ sse_tp' = [sse_tp EXCEPT ![kind] = tp]
               /\ sse_out' = sse_out \o << Entry("title", label, 0, 0, 0) >> \o pr.lines
               /\ sse_pc' = IF pr.ok THEN next ELSE "raised"
       ELSE /\ sse_pc' = next
            /\ UNCHANGED << sse_tp, sse_out >>
    /\ UNCHANGED << sfVars, tpVars, crVars, pots, g_time_grid, g_siegerts, g_potential, g_choice_default, sse_args, sse_siegerts,
                    sse_potential, sse_l, sse_xgrid, sse_dx, sse_cont, sse_exact >>

SSE_IfExact ==
    SSE_Expansion("if_exact", sse_args.choice.exact, "exact_S", "Exact Siegert", "if_MLE")

SSE_IfMLE ==
    SSE_Expansion("if_MLE", sse_args.choice.MLE, "MLE", "MLE", "if_Ber")

SSE_IfBer ==
    SSE_Expansion("if_Ber", sse_args.choice.Ber, "Ber", "Berggren", "done")

\* the call is over (it returned, or an exception left it): its frame is gone,
\* what it printed stays
SSE_Return ==
    /\ sse_pc \in {"done", "raised"}
    /\ sse_pc' = "idle"
    /\ sse_args' = NoArgs
    /\ sse_siegerts' = <<>>
    /\ sse_potential' = "none"
    /\ sse_l' = 0
    /\ sse_xgrid' = NoGrid
    /\ sse_dx' = 0
    /\ sse_cont' = <<>>
    /\ sse_exact' = <<>>
    /\ sse_tp' = NoTp
    /\ g_choice_default' =
          IF sse_args.by_default THEN SSE_choice_after(sse_args.choice) ELSE g_choice_default
    /\ UNCHANGED << sfVars, tpVars, crVars, pots, g_time_grid, g_siegerts, g_potential, sse_out >>

\* the cell  time_grid = np.linspace(...)
Cell_time_grid ==
    /\ sse_pc = "idle"
    /\ \E tg \in TimeGrids : g_time_grid' = tg
    /\ UNCHANGED << sfVars, tpVars, crVars, pots, g_siegerts, g_potential, g_choice_default, sse_pc, sse_args, sse_siegerts,
                    sse_potential, sse_l, sse_xgrid, sse_dx, sse_cont, sse_exact, sse_tp,
                    sse_out >>

OffSSE ==
    /\ g_time_grid = <<>>
    /\ g_siegerts = <<>>
    /\ g_potential = "none"
    /\ g_choice_default = SSE_choice_default
    /\ sse_pc = "off"
    /\ sse_args = NoArgs
    /\ sse_siegerts = <<>>
    /\ sse_potential = "none"
    /\ sse_l = 0
    /\ sse_xgrid = NoGrid
    /\ sse_dx = 0
    /\ sse_cont = <<>>
    /\ sse_exact = <<>>
    /\ sse_tp = NoTp
    /\ sse_out = <<>>

OnSSE ==
    /\ g_time_grid \in TimeGrids
    /\ g_siegerts = FromFile(ReadFile("siegerts.dat"), NoNres)
    /\ g_potential = FromFile(ReadFile("siegerts.dat"), NoNres)[1].pot
    /\ g_choice_default = SSE_choice_default
    /\ sse_pc = "idle"
    /\ sse_args = NoArgs
    /\ sse_siegerts = <<>>
    /\ sse_potential = "none"
    /\ sse_l = 0
    /\ sse_xgrid = NoGrid
    /\ sse_dx = 0
    /\ sse_cont = <<>>
    /\ sse_exact = <<>>
    /\ sse_tp = NoTp
    /\ sse_out = <<>>

NextSSE ==
    \/ \E f \in Files, nres \in 1..MaxNres, hk \in 1..MaxHk, nx \in 2..MaxNx,
          tg \in TimeGrids, ch \in Choices, dflt \in BOOLEAN :
          /\ dflt => ch = SSE_choice_default
          /\ SSE_Call(f, nres, MaxKmax, hk, nx, tg, ch, dflt)
    \/ SSE_Load
    \/ SSE_Pot
    \/ SSE_Grid
    \/ SSE_Disc
    \/ SSE_Cont
    \/ SSE_Exact
    \/ SSE_ExactTp
    \/ SSE_IfExact
    \/ SSE_IfMLE
    \/ SSE_IfBer
    \/ SSE_Return
    \/ Cell_time_grid

(***************************************************************************)
(* Strength function: convergence of the Mittag-Leffler expansion          *)
(***************************************************************************)
MaxB == 2           \* most bound states in the data file
MaxAB == 1          \* most antibound states in the data file
MaxCouples == 8     \* most resonant couples in the data file

\* nres of  siegerts = SWPBasisSet.from_file("siegerts.dat", nres=25)
Stf_nres == 25

\* h_k = 0.05 is the unit of the plotting grid; k_max = 10
Stf_h_k == 1
Stf_k_max == 200

Tests == {"gauss", "rect"}

\* the four colours of the first plot used for both
colors_first(test) == << "#0c2c84", "#1d91c0", "#7fcdbb", "#c7e9b4" >>

\* colors, as assigned before the plotting loop of each test function
colors(test) ==
    IF test = "gauss" THEN << "#0c2c84", "#1d91c0", "#7fcdbb", "#c7e9b4" >>
    ELSE << "#0c2c84", "#1d91c0", "#41b6c4", "#7fcdbb", "#c7e9b4" >>

\* the list the plotting loop runs over
loop_list(test) == IF test = "gauss" THEN << 2, 4, 6 >> ELSE << 2, 4, 6, 8 >>

\* the wavenumbers of the plotting grid are twentieths: h_k is the numerator 1
\* over Stf_den
Stf_den == 20

\* the number of points from h_k to k_max, k_max included
Stf_kgrid_len_closed ==
    FInt(FDiv(Fl(Stf_k_max, Stf_den), Fl(Stf_h_k, Stf_den)))

\* the length of np.arange(h_k, k_max, h_k): ceil((k_max - h_k)/h_k), in floats
Stf_kgrid_len ==
    FCeil(FDiv(FSub(Fl(Stf_k_max, Stf_den), Fl(Stf_h_k, Stf_den)), Fl(Stf_h_k, Stf_den)))

\* np.arange(start, stop, step) with start = step, of n points: start + i*step
Arange(n, step) == [i \in 1..n |-> i * step]

TypeCode(ty) == CASE ty = "b" -> 1 [] ty = "ab" -> 2 [] ty = "r" -> 3 [] ty = "ar" -> 4
                  [] OTHER -> 0

\* the term of one Siegert state in the Mittag-Leffler expansion of the strength
\* function at the wavenumber k: a number fixed by the state, the test function
\* and k
MLE_term(s, test, k) ==
    (((TypeCode(s.type) * 5 + s.k * 3 + (IF test = "gauss" THEN 1 ELSE 2)) * (k + 1)) % 7) - 3

RECURSIVE SumTerms(_, _, _)
SumTerms(b, test, k) ==
    IF b = <<>> THEN 0
    ELSE MLE_term(Head(b), test, k) + SumTerms(Tail(b), test, k)

\* basis.MLE_strength_function(test, kgrid): a sum over the states of the basis set
MLE_strength_function(b, test, kgrid) ==
    [q \in 1..Len(kgrid) |-> SumTerms(b, test, kgrid[q])]

\* u + v for two arrays over kgrid
VAdd(u, v) == [q \in 1..Len(u) |-> u[q] + v[q]]

\* b_a + sum(list): sum starts from the integer 0
RECURSIVE PlusSum(_, _)
PlusSum(u, list) ==
    IF list = <<>> THEN u ELSE PlusSum(VAdd(u, Head(list)), Tail(list))

\* list[:i]
Slice(list, i) == Take(list, i)

\* the antibound states left out
Stf_bnds_only == bounds(sf_siegerts)

\* bnds_abnds = siegerts.bounds + siegerts.antibounds
Stf_bnds_abnds == Concat(bounds(sf_siegerts), antibounds(sf_siegerts))

\* res taken from the wrong filter
Stf_res_wrong == antiresonants(sf_siegerts)

\* res = siegerts.resonants
Stf_res == resonants(sf_siegerts)

\* ares = siegerts.antiresonants
Stf_ares == antiresonants(sf_siegerts)

\* the last couple left out
Stf_couples_short == 1..(Len(sf_res) - 1)

\* range(len(res)) of the list comprehension building r_MLE
Stf_couples == 1..Len(sf_res)

\* [SWPBasisSet(states=[res[i], ares[i]]).MLE_strength_function(test, kgrid)
\*  for i in range(len(res))]
Stf_r_MLE(test) ==
    [i \in Stf_couples |->
        MLE_strength_function(<< sf_res[i], sf_ares[i] >>, test, sf_kgrid)]

Curve(test, label, color, ncouples, data) ==
    [test |-> test, label |-> label, color |-> color, ncouples |-> ncouples, data |-> data]

\* the number shown after N_res = in the label of the loop's curve
Stf_loop_label(test, i) == IF test = "gauss" THEN i ELSE 2 * i

Stf_Load ==
    /\ sf_pc = "load"
    /\ sf_siegerts' =
          FromFile(FileStates("siegerts.dat", sf_file.nb, sf_file.nab, sf_file.nc), Stf_nres)
    /\ sf_pc' = "tests"
    /\ UNCHANGED << sseVars, tpVars, crVars, pots, sf_file, sf_test_rect, sf_l, sf_kgrid, sf_bnds_abnds, sf_res, sf_ares,
                    sf_b_a_MLE, sf_r_MLE, sf_i, sf_plots >>

\* x_c = 0.0
Stf_x_c == Frac(0, 1)

\* a = l/2, l being the width read from the potential
Stf_a(l) == Frac(l, 2)

\* l = siegerts.potential.width; test_rect = Rectangular.from_width_and_center(a, x_c)
Stf_Tests ==
    /\ sf_pc = "tests"
    /\ sf_l' = pots[BasisPotential(sf_siegerts)].width
    /\ sf_test_rect' =
          Rectangular_from_width_and_center(Stf_a(pots[BasisPotential(sf_siegerts)].width),
                                            Stf_x_c)
    /\ sf_pc' = "kgrid"
    /\ UNCHANGED << sseVars, tpVars, crVars, pots, sf_file, sf_siegerts, sf_kgrid, sf_bnds_abnds, sf_res,
                    sf_ares, sf_b_a_MLE, sf_r_MLE, sf_i, sf_plots >>

\* kgrid = np.arange(h_k, k_max, h_k)
Stf_Kgrid ==
    /\ sf_pc = "kgrid"
    /\ sf_kgrid' = Arange(Stf_kgrid_len, Stf_h_k)
    /\ sf_pc' = "decomp"
    /\ UNCHANGED << sseVars, tpVars, crVars, pots, sf_file, sf_test_rect, sf_siegerts, sf_l, sf_bnds_abnds, sf_res,
                    sf_ares, sf_b_a_MLE, sf_r_MLE, sf_i, sf_plots >>

Stf_Decompose ==
    /\ sf_pc = "decomp"
    /\ sf_bnds_abnds' = Stf_bnds_abnds
    /\ sf_res' = Stf_res
    /\ sf_ares' = Stf_ares
    /\ sf_pc' = "b_a_gauss"
    /\ UNCHANGED << sseVars, tpVars, crVars, pots, sf_file, sf_test_rect, sf_siegerts, sf_l, sf_kgrid, sf_b_a_MLE,
                    sf_r_MLE, sf_i, sf_plots >>

\* b_a_MLE = bnds_abnds.MLE_strength_function(test, kgrid)
Stf_b_a(test, here, next) ==
    /\ sf_pc = here
    /\ sf_b_a_MLE' =
          [sf_b_a_MLE EXCEPT ![test] = MLE_strength_function(sf_bnds_abnds, test, sf_kgrid)]
    /\ sf_pc' = next
    /\ UNCHANGED << sseVars, tpVars, crVars, pots, sf_file, sf_test_rect, sf_siegerts, sf_l, sf_kgrid, sf_bnds_abnds,
                    sf_res, sf_ares, sf_r_MLE, sf_i, sf_plots >>

\* r_MLE = [... for i in range(len(res))]; ares[i] may not exist
Stf_r(test, here, next) ==
    /\ sf_pc = here
    /\ IF \A i \in Stf_couples : i <= Len(sf_res) /\ i <= Len(sf_ares)
       THEN /\ sf_r_MLE' = [sf_r_MLE EXCEPT ![test] = Stf_r_MLE(test)]
            /\ sf_pc' = next
       ELSE /\ sf_pc' = "raised"
            /\ UNCHANGED sf_r_MLE
    /\ UNCHANGED << sseVars, tpVars, crVars, pots, sf_file, sf_test_rect, sf_siegerts, sf_l, sf_kgrid, sf_bnds_abnds,
                    sf_res, sf_ares, sf_b_a_MLE, sf_i, sf_plots >>

\* plt.plot(kgrid, b_a_MLE + sum(r_MLE), color='k', label='N_res = '+str(len(res)))
Stf_PlotRef(test, here, next) ==
    /\ sf_pc = here
    /\ sf_plots' = Append(sf_plots,
          Curve(test, Len(sf_res), "k", Len(sf_r_MLE[test]),
                PlusSum(sf_b_a_MLE[test], sf_r_MLE[test])))
    /\ sf_pc' = next
    /\ UNCHANGED << sseVars, tpVars, crVars, pots, sf_file, sf_test_rect, sf_siegerts, sf_l, sf_kgrid, sf_bnds_abnds,
                    sf_res, sf_ares, sf_b_a_MLE, sf_r_MLE, sf_i >>

\* plt.plot(kgrid, b_a_MLE, color=colors[0], label='N_res = 0')
Stf_PlotBound(test, here, next) ==
    /\ sf_pc = here
    /\ sf_plots' = Append(sf_plots, Curve(test, 0, colors(test)[1], 0, sf_b_a_MLE[test]))
    /\ sf_i' = 1
    /\ sf_pc' = next
    /\ UNCHANGED << sseVars, tpVars, crVars, pots, sf_file, sf_test_rect, sf_siegerts, sf_l, sf_kgrid, sf_bnds_abnds,
                    sf_res, sf_ares, sf_b_a_MLE, sf_r_MLE >>

\* for i in [...]: plt.plot(kgrid, b_a_MLE + sum(r_MLE[:i]), color=colors[i//2], label=...)
Stf_PlotLoop(test, here, next) ==
    /\ sf_pc = here
    /\ IF sf_i > Len(loop_list(test))
       THEN /\ sf_pc' = next
            /\ UNCHANGED << sf_i, sf_plots >>
       ELSE LET i == loop_list(test)[sf_i]
                part == Slice(sf_r_MLE[test], i)
            IN IF (i \div 2) + 1 > Len(colors(test))
               THEN /\ sf_pc' = "raised"
                    /\ UNCHANGED << sf_i, sf_plots >>
               ELSE /\ sf_plots' = Append(sf_plots,
                          Curve(test, Stf_loop_label(test, i), colors(test)[(i \div 2) + 1],
                                Len(part), PlusSum(sf_b_a_MLE[test], part)))
                    /\ sf_i' = sf_i + 1
                    /\ UNCHANGED sf_pc
    /\ UNCHANGED << sseVars, tpVars, crVars, pots, sf_file, sf_test_rect, sf_siegerts, sf_l, sf_kgrid, sf_bnds_abnds,
                    sf_res, sf_ares, sf_b_a_MLE, sf_r_MLE >>

Stf_Files == [nb : 1..MaxB, nab : 0..MaxAB, nc : 0..MaxCouples]

OffSF ==
    /\ sf_pc = "off"
    /\ sf_file = [nb |-> 1, nab |-> 0, nc |-> 0]
    /\ sf_test_rect = NoRect
    /\ sf_siegerts = <<>>
    /\ sf_l = 0
    /\ sf_kgrid = <<>>
    /\ sf_bnds_abnds = <<>>
    /\ sf_res = <<>>
    /\ sf_ares = <<>>
    /\ sf_b_a_MLE = [t \in Tests |-> <<>>]
    /\ sf_r_MLE = [t \in Tests |-> <<>>]
    /\ sf_i = 0
    /\ sf_plots = <<>>

OnSF ==
    /\ sf_pc = "load"
    /\ sf_file \in Stf_Files
    /\ sf_test_rect = NoRect
    /\ sf_siegerts = <<>>
    /\ sf_l = 0
    /\ sf_kgrid = <<>>
    /\ sf_bnds_abnds = <<>>
    /\ sf_res = <<>>
    /\ sf_ares = <<>>
    /\ sf_b_a_MLE = [t \in Tests |-> <<>>]
    /\ sf_r_MLE = [t \in Tests |-> <<>>]
    /\ sf_i = 0
    /\ sf_plots = <<>>

NextSF ==
    \/ Stf_Load
    \/ Stf_Tests
    \/ Stf_Kgrid
    \/ Stf_Decompose
    \/ Stf_b_a("gauss", "b_a_gauss", "r_gauss")
    \/ Stf_r("gauss", "r_gauss", "ref_gauss")
    \/ Stf_PlotRef("gauss", "ref_gauss", "bound_gauss")
    \/ Stf_PlotBound("gauss", "bound_gauss", "loop_gauss")
    \/ Stf_PlotLoop("gauss", "loop_gauss", "b_a_rect")
    \/ Stf_b_a("rect", "b_a_rect", "r_rect")
    \/ Stf_r("rect", "r_rect", "ref_rect")
    \/ Stf_PlotRef("rect", "ref_rect", "bound_rect")
    \/ Stf_PlotBound("rect", "bound_rect", "loop_rect")
    \/ Stf_PlotLoop("rect", "loop_rect", "done")

(***************************************************************************)
(* Convergence of the exact time propagation                               *)
(***************************************************************************)
MaxTpH == 2         \* h_ks holds wavenumber steps among 1..MaxTpH
MaxTpK == 2         \* k_maxs holds cutoffs among 2..MaxTpK+1

\* time_grid = [0.0, 0.25, 0.5, 1.0, 3.0], in units of 0.25
tp_time_grid == << 0, 1, 2, 4, 12 >>

\* seq[i] of Python for an index that may be negative; the index is in range
PyIndex(seq, i) == IF i < 0 THEN seq[Len(seq) + i + 1] ELSE seq[i + 1]

PyInRange(seq, i) == -Len(seq) <= i /\ i < Len(seq)

SetMax(S) == CHOOSE x \in S : \A y \in S : y <= x

SetMin(S) == CHOOSE x \in S : \A y \in S : x <= y

RECURSIVE Descending(_)
Descending(S) == IF S = {} THEN <<>> ELSE << SetMax(S) >> \o Descending(S \ {SetMax(S)})

RECURSIVE Ascending(_)
Ascending(S) == IF S = {} THEN <<>> ELSE << SetMin(S) >> \o Ascending(S \ {SetMin(S)})

Range(seq) == { seq[i] : i \in 1..Len(seq) }

\* h_ks = [1, 0.5, 0.1, 0.05, 0.025, 0.01]: a list of steps written in decreasing order
H_ks_lists == { Descending(S) : S \in (SUBSET (1..MaxTpH)) \ {{}} }

\* k_maxs = [5, 10, 15, 20, 25, 30, 50]: a list of cutoffs written in increasing order
K_maxs_lists == { Ascending(S) : S \in (SUBSET (2..(MaxTpK + 1))) \ {{}} }

\* SWPBasisSet.find_Siegert_states(pot, 0, 1, 0, grid=xgrid): the bound and
\* antibound states of the potential
FindSiegertStates(p, nb, nab, g) ==
    [i \in 1..(nb + nab) |->
        IF i <= nab THEN State("ab", i, "-", p, g) ELSE State("b", i - nab, "-", p, g)]

Tagged(h, k, v) == [h |-> h, k |-> k, v |-> v]

NoTagged == Tagged(0, 0, <<>>)

NoGauss == [sigma |-> << 0, 1 >>, x_c |-> -1]

\* even_only=True left out
TP_cont_both(h, k) == FindContinuumStates("pot", k, h, FALSE, tp_xgrid)

\* conts.append(SWPBasisSet.find_continuum_states(pot, k, h, even_only=True, grid=xgrid))
TP_cont(h, k) == FindContinuumStates("pot", k, h, TRUE, tp_xgrid)

\* [cont + bnds for cont in conts], from the i-th element of conts on: the list
\* built, and what conts and bnds hold afterwards
RECURSIVE TP_exacts_from(_, _)
TP_exacts_from(i, acc) ==
    IF i > Len(acc.conts) THEN acc
    ELSE LET cont == acc.conts[i]
         IN TP_exacts_from(i + 1,
               [exacts |-> Append(acc.exacts,
                                  Tagged(cont.h, cont.k, Concat(cont.v, acc.bnds))),
                conts |-> [acc.conts EXCEPT ![i].v = Add_left_after(cont.v, acc.bnds)],
                bnds |-> Add_right_after(cont.v, acc.bnds)])

TP_exacts_cell ==
    TP_exacts_from(1, [exacts |-> <<>>, conts |-> tp_conts, bnds |-> tp_bnds])

\* exacts = [cont + bnds for cont in conts]
TP_exacts == TP_exacts_cell.exacts

\* [exact.exact_propagation(gauss, time_grid) for exact in exacts]
TP_exact_tps ==
    [i \in 1..Len(tp_exacts) |->
        Tagged(tp_exacts[i].h, tp_exacts[i].k,
               Propagation("exact", tp_exacts[i].v, tp_time_grid))]

\* i_b_ref of the large-time absolute-error cell
TP_i_b_ref == -1

\* i_t of the large-time cells
TP_i_t == -1

\* the flat index taken k-major
TP_i_b_transposed(i_h, i_k) == i_k * Len(tp_h_ks) + i_h

\* i_b = i_h*len(k_maxs)+i_k
TP_i_b(i_h, i_k) == i_h * Len(tp_k_maxs) + i_k

\* the first propagation taken as the reference
TP_ref_first == PyIndex(tp_exact_tps, 0)

\* exact_tps[i_b_ref] of  ref = np.abs(exact_tps[i_b_ref][i_t])
TP_ref == PyIndex(tp_exact_tps, TP_i_b_ref)

\* every state found is kept
TP_bnds_all(found) == found

\* bnds = siegerts.bounds
TP_bnds(found) == bounds(found)

\* x_c = 0.0
TP_x_c == 0

\* sigma = l/20.; gauss = Gaussian(sigma, x_c, grid=xgrid)
TP_gauss == [sigma |-> << pots["pot"].width, 20 >>, x_c |-> TP_x_c]

\* gauss.values
TP_gauss_values ==
    Tagged(0, 0, << [by |-> "gauss", t |-> 0, nx |-> Len(tp_xgrid.pts)] >>)

\* i_t of the cells for the initial time
TP_i_t_first == 0

\* i_k = -1 of the cells that vary h_k
TP_i_k_highest == -1

\* k = k_maxs[i_k] of the cells that vary h_k
TP_hk_k == PyIndex(tp_k_maxs, TP_i_k_highest)

\* i_k is used as it is
TP_hk_i_k_kept(i_k) == i_k

\* if i_k == -1: i_k = len(k_maxs) - 1
TP_hk_i_k(i_k) == IF i_k = -1 THEN Len(tp_k_maxs) - 1 ELSE i_k

\* the reference is designated as in the large-time cell
TP_hk_i_b_ref_last(i_k) == TP_i_b_ref

\* i_b_ref = (len(h_ks)-1) * len(k_maxs) + i_k
TP_hk_i_b_ref(i_k) == (Len(tp_h_ks) - 1) * Len(tp_k_maxs) + i_k

\* xgrid = np.linspace(-l/2., l/2., 201); pot = SWPotential(l, V0, grid=xgrid)
TP_Pot ==
    /\ tp_pc = "pot"
    /\ tp_xgrid' = Linspace(pots["pot"].width, MaxNx)
    /\ tp_pc' = "siegerts"
    /\ UNCHANGED << sseVars, sfVars, crVars, pots, tpLate, tp_found, tp_h_ks, tp_k_maxs, tp_siegerts,
                    tp_bnds, tp_conts, tp_exacts, tp_exact_tps, tp_i_h, tp_i_k, tp_ref,
                    tp_plots >>

\* siegerts = SWPBasisSet.find_Siegert_states(...); bnds = siegerts.bounds
TP_Siegerts ==
    /\ tp_pc = "siegerts"
    /\ LET found == FindSiegertStates("pot", tp_found.nb, tp_found.nab, tp_xgrid)
       IN /\ tp_siegerts' = Filter_source_after(found, "b")
          /\ tp_bnds' = TP_bnds(found)
    /\ tp_i_h' = 0
    /\ tp_i_k' = 0
    /\ tp_pc' = "conts"
    /\ UNCHANGED << sseVars, sfVars, crVars, pots, tpLate, tp_found, tp_h_ks, tp_k_maxs, tp_xgrid,
                    tp_conts, tp_exacts, tp_exact_tps, tp_ref, tp_plots >>

\* for h in h_ks: for k in k_maxs: conts.append(...)   (one iteration)
TP_Conts ==
    /\ tp_pc = "conts"
    /\ IF tp_i_h >= Len(tp_h_ks)
       THEN /\ tp_pc' = "exacts"
            /\ UNCHANGED << tp_conts, tp_i_h, tp_i_k >>
       ELSE LET h == tp_h_ks[tp_i_h + 1]
                k == tp_k_maxs[tp_i_k + 1]
            IN /\ tp_conts' = Append(tp_conts, Tagged(h, k, TP_cont(h, k)))
               /\ IF tp_i_k + 1 < Len(tp_k_maxs)
                  THEN tp_i_k' = tp_i_k + 1 /\ UNCHANGED tp_i_h
                  ELSE tp_i_k' = 0 /\ tp_i_h' = tp_i_h + 1
               /\ UNCHANGED tp_pc
    /\ UNCHANGED << sseVars, sfVars, crVars, pots, tpLate, tp_found, tp_h_ks, tp_k_maxs, tp_xgrid,
                    tp_siegerts, tp_bnds, tp_exacts, tp_exact_tps, tp_ref, tp_plots >>

TP_Exacts ==
    /\ tp_pc = "exacts"
    /\ tp_exacts' = TP_exacts
    /\ tp_conts' = TP_exacts_cell.conts
    /\ tp_bnds' = TP_exacts_cell.bnds
    /\ tp_pc' = "gauss"
    /\ UNCHANGED << sseVars, sfVars, crVars, pots, tpLate, tp_found, tp_h_ks, tp_k_maxs, tp_xgrid,
                    tp_siegerts, tp_exact_tps, tp_i_h, tp_i_k, tp_ref, tp_plots >>

\* x_c = 0.0; sigma = l/20.; gauss = Gaussian(sigma, x_c, grid=xgrid)
TP_Gauss ==
    /\ tp_pc = "gauss"
    /\ tp_gauss' = TP_gauss
    /\ tp_pc' = "exact_tps"
    /\ UNCHANGED << sseVars, sfVars, crVars, pots, tp_found, tp_h_ks, tp_k_maxs, tp_xgrid,
                    tp_siegerts, tp_bnds, tp_conts, tp_exacts, tp_exact_tps, tp_i_h, tp_i_k,
                    tp_ref, tp_plots, tp_i_t, tp_i_b_ref >>

TP_ExactTps ==
    /\ tp_pc = "exact_tps"
    /\ tp_exact_tps' = TP_exact_tps
    /\ tp_pc' = "ready"
    /\ UNCHANGED << sseVars, sfVars, crVars, pots, tpLate, tp_found, tp_h_ks, tp_k_maxs, tp_xgrid,
                    tp_siegerts, tp_bnds, tp_conts, tp_exacts, tp_i_h, tp_i_k, tp_ref,
                    tp_plots >>

TpCurve(cell, lab_h, lab_k, i_t, i_b, tp, ref) ==
    [cell |-> cell, lab_h |-> lab_h, lab_k |-> lab_k, i_t |-> i_t, i_b |-> i_b,
     tp |-> tp, ref |-> ref]

\* large-time absolute errors: i_t = -1; i_b_ref = -1; ref = np.abs(exact_tps[i_b_ref][i_t])
TP_LargeTimeRef ==
    /\ tp_pc = "ready"
    /\ IF PyInRange(tp_exact_tps, TP_i_b_ref)
       THEN /\ tp_ref' = TP_ref
            /\ tp_pc' = "lt_loop"
       ELSE /\ tp_pc' = "raised"
            /\ UNCHANGED tp_ref
    /\ tp_i_t' = TP_i_t
    /\ tp_i_b_ref' = TP_i_b_ref
    /\ tp_i_h' = 0
    /\ tp_i_k' = 0
    /\ tp_plots' = <<>>
    /\ UNCHANGED << sseVars, sfVars, crVars, pots, tp_found, tp_h_ks, tp_k_maxs, tp_xgrid,
                    tp_siegerts, tp_bnds, tp_conts, tp_exacts, tp_exact_tps, tp_gauss >>

\* for i_h, h in enumerate(h_ks): for i_k, k in enumerate(k_maxs):
\*     if i_b != i_b_ref: plt.plot(xgrid, np.abs(tp-ref), label=lab)   (one iteration)
TP_LargeTimeLoop ==
    /\ tp_pc = "lt_loop"
    /\ IF tp_i_h >= Len(tp_h_ks)
       THEN /\ tp_pc' = "shown"
            /\ UNCHANGED << tp_plots, tp_i_h, tp_i_k >>
       ELSE LET h == tp_h_ks[tp_i_h + 1]
                k == tp_k_maxs[tp_i_k + 1]
                i_b == TP_i_b(tp_i_h, tp_i_k)
            IN /\ IF i_b # tp_i_b_ref
                  THEN tp_plots' = Append(tp_plots,
                          TpCurve("large_time_abs", h, k, tp_i_t, i_b,
                                  PyIndex(tp_exact_tps, i_b), tp_ref))
                  ELSE UNCHANGED tp_plots
               /\ IF tp_i_k + 1 < Len(tp_k_maxs)
                  THEN tp_i_k' = tp_i_k + 1 /\ UNCHANGED tp_i_h
                  ELSE tp_i_k' = 0 /\ tp_i_h' = tp_i_h + 1
               /\ UNCHANGED tp_pc
    /\ UNCHANGED << sseVars, sfVars, crVars, pots, tpLate, tp_found, tp_h_ks, tp_k_maxs, tp_xgrid,
                    tp_siegerts, tp_bnds, tp_conts, tp_exacts, tp_exact_tps, tp_ref >>

\* the cell has run; any cell can be run next
TP_CellDone ==
    /\ tp_pc = "shown"
    /\ tp_pc' = "ready"
    /\ UNCHANGED << sseVars, sfVars, crVars, pots, tpLate, tp_found, tp_h_ks, tp_k_maxs, tp_xgrid,
                    tp_siegerts, tp_bnds, tp_conts, tp_exacts, tp_exact_tps, tp_i_h, tp_i_k,
                    tp_ref, tp_plots >>

\* the loop variables move on: the inner loop over k_maxs, then the next h of h_ks
TP_NextHK ==
    IF tp_i_k + 1 < Len(tp_k_maxs)
    THEN tp_i_k' = tp_i_k + 1 /\ UNCHANGED tp_i_h
    ELSE tp_i_k' = 0 /\ tp_i_h' = tp_i_h + 1

\* the cells that vary k_max:  i_t = 0 (or -1); t = time_grid[i_t];
\* ref = gauss.values  in the cell of the absolute errors
TP_KmaxStart(cell, i_t, abs) ==
    /\ tp_pc = "ready"
    /\ tp_i_t' = i_t
    /\ tp_ref' = IF abs THEN TP_gauss_values ELSE tp_ref
    /\ tp_i_h' = 0
    /\ tp_i_k' = 0
    /\ tp_plots' = <<>>
    /\ tp_pc' = cell
    /\ UNCHANGED << sseVars, sfVars, crVars, pots, tp_found, tp_h_ks, tp_k_maxs, tp_xgrid,
                    tp_siegerts, tp_bnds, tp_conts, tp_exacts, tp_exact_tps, tp_gauss,
                    tp_i_b_ref >>

\* for i_h, h in enumerate(h_ks): for i_k, k in enumerate(k_maxs):
\*     i_b = i_h*len(k_maxs)+i_k; tp = np.abs(exact_tps[i_b][i_t]); plt.plot(...)
\* (one iteration)
TP_KmaxLoop(cell, abs) ==
    /\ tp_pc = cell
    /\ IF tp_i_h >= Len(tp_h_ks)
       THEN /\ tp_pc' = "shown"
            /\ UNCHANGED << tp_plots, tp_i_h, tp_i_k >>
       ELSE LET h == tp_h_ks[tp_i_h + 1]
                k == tp_k_maxs[tp_i_k + 1]
                i_b == TP_i_b(tp_i_h, tp_i_k)
            IN IF PyInRange(tp_exact_tps, i_b)
               THEN /\ tp_plots' = Append(tp_plots,
                          TpCurve(cell, h, k, tp_i_t, i_b, PyIndex(tp_exact_tps, i_b),
                                  IF abs THEN tp_ref ELSE NoTagged))
                    /\ TP_NextHK
                    /\ UNCHANGED tp_pc
               ELSE /\ tp_pc' = "raised"
                    /\ UNCHANGED << tp_plots, tp_i_h, tp_i_k >>
    /\ UNCHANGED << sseVars, sfVars, crVars, pots, tpLate, tp_found, tp_h_ks, tp_k_maxs, tp_xgrid,
                    tp_siegerts, tp_bnds, tp_conts, tp_exacts, tp_exact_tps, tp_ref >>

\* the cells that vary h_k:  i_k = -1; k = k_maxs[i_k]
TP_HkStart(cell) ==
    /\ tp_pc = "ready"
    /\ tp_i_k' = TP_i_k_highest
    /\ tp_i_t' = 0
    /\ tp_i_h' = 0
    /\ tp_plots' = <<>>
    /\ tp_pc' = cell
    /\ UNCHANGED << sseVars, sfVars, crVars, pots, tp_found, tp_h_ks, tp_k_maxs, tp_xgrid,
                    tp_siegerts, tp_bnds, tp_conts, tp_exacts, tp_exact_tps, tp_gauss,
                    tp_ref, tp_i_b_ref >>

\* for i_t, t in enumerate(time_grid): for i_h, h in enumerate(h_ks):
\*     if i_k == -1: i_k = len(k_maxs) - 1
\*     i_b = i_h*len(k_maxs) + i_k; tp = np.abs(exact_tps[i_b][i_t]); plt.plot(...)
\* (one iteration)
TP_HkLoop ==
    /\ tp_pc = "hk_loop"
    /\ IF tp_i_t >= Len(tp_time_grid)
       THEN /\ tp_pc' = "shown"
            /\ UNCHANGED << tp_plots, tp_i_h, tp_i_k, tp_i_t >>
       ELSE LET h == tp_h_ks[tp_i_h + 1]
                i_k == TP_hk_i_k(tp_i_k)
                i_b == TP_i_b(tp_i_h, i_k)
            IN IF PyInRange(tp_exact_tps, i_b)
               THEN /\ tp_plots' = Append(tp_plots,
                          TpCurve("hk_loop", h, TP_hk_k, tp_i_t, i_b,
                                  PyIndex(tp_exact_tps, i_b), NoTagged))
                    /\ tp_i_k' = i_k
                    /\ IF tp_i_h + 1 < Len(tp_h_ks)
                       THEN tp_i_h' = tp_i_h + 1 /\ UNCHANGED tp_i_t
                       ELSE tp_i_h' = 0 /\ tp_i_t' = tp_i_t + 1
                    /\ UNCHANGED tp_pc
               ELSE /\ tp_pc' = "raised"
                    /\ UNCHANGED << tp_plots, tp_i_h, tp_i_k, tp_i_t >>
    /\ UNCHANGED << sseVars, sfVars, crVars, pots, tp_found, tp_h_ks, tp_k_maxs, tp_xgrid,
                    tp_siegerts, tp_bnds, tp_conts, tp_exacts, tp_exact_tps, tp_gauss,
                    tp_ref, tp_i_b_ref >>

\* for i_t, t in enumerate(time_grid):
\*     if i_k == -1: i_k = len(k_maxs) -1
\*     i_b_ref = (len(h_ks)-1) * len(k_maxs) + i_k; ref = np.abs(exact_tps[i_b_ref][i_t])
TP_HkAbsTime ==
    /\ tp_pc = "hkabs_time"
    /\ IF tp_i_t >= Len(tp_time_grid)
       THEN /\ tp_pc' = "shown"
            /\ UNCHANGED << tp_i_k, tp_i_b_ref, tp_ref, tp_i_h >>
       ELSE LET i_k == TP_hk_i_k(tp_i_k)
                i_b_ref == TP_hk_i_b_ref(i_k)
            IN /\ tp_i_k' = i_k
               /\ tp_i_b_ref' = i_b_ref
               /\ tp_i_h' = 0
               /\ IF PyInRange(tp_exact_tps, i_b_ref)
                  THEN tp_ref' = PyIndex(tp_exact_tps, i_b_ref) /\ tp_pc' = "hkabs_loop"
                  ELSE tp_pc' = "raised" /\ UNCHANGED tp_ref
    /\ UNCHANGED << sseVars, sfVars, crVars, pots, tp_found, tp_h_ks, tp_k_maxs, tp_xgrid,
                    tp_siegerts, tp_bnds, tp_conts, tp_exacts, tp_exact_tps, tp_gauss,
                    tp_plots, tp_i_t >>

\*     for i_h, h in enumerate(h_ks):
\*         i_b = i_h*len(k_maxs)+i_k; tp = np.abs(exact_tps[i_b][i_t])
\*         if i_b != i_b_ref: plt.plot(xgrid, np.abs(tp-ref), label=lab)
\* (one iteration)
TP_HkAbsLoop ==
    /\ tp_pc = "hkabs_loop"
    /\ IF tp_i_h >= Len(tp_h_ks)
       THEN /\ tp_pc' = "hkabs_time"
            /\ tp_i_t' = tp_i_t + 1
            /\ UNCHANGED << tp_plots, tp_i_h >>
       ELSE LET h == tp_h_ks[tp_i_h + 1]
                i_b == TP_i_b(tp_i_h, tp_i_k)
            IN IF PyInRange(tp_exact_tps, i_b)
               THEN /\ IF i_b # tp_i_b_ref
                       THEN tp_plots' = Append(tp_plots,
                               TpCurve("hkabs_loop", h, TP_hk_k, tp_i_t, i_b,
                                       PyIndex(tp_exact_tps, i_b), tp_ref))
                       ELSE UNCHANGED tp_plots
                    /\ tp_i_h' = tp_i_h + 1
                    /\ UNCHANGED << tp_pc, tp_i_t >>
               ELSE /\ tp_pc' = "raised"
                    /\ UNCHANGED << tp_plots, tp_i_h, tp_i_t >>
    /\ UNCHANGED << sseVars, sfVars, crVars, pots, tp_found, tp_h_ks, tp_k_maxs, tp_xgrid,
                    tp_siegerts, tp_bnds, tp_conts, tp_exacts, tp_exact_tps, tp_gauss,
                    tp_ref, tp_i_k, tp_i_b_ref >>


OffTP ==
    /\ tp_pc = "off"
    /\ tp_found = [nb |-> 1, nab |-> 0]
    /\ tp_h_ks = <<>>
    /\ tp_k_maxs = <<>>
    /\ tp_xgrid = NoGrid
    /\ tp_siegerts = <<>>
    /\ tp_bnds = <<>>
    /\ tp_conts = <<>>
    /\ tp_exacts = <<>>
    /\ tp_exact_tps = <<>>
    /\ tp_i_h = 0
    /\ tp_i_k = 0
    /\ tp_ref = NoTagged
    /\ tp_plots = <<>>
    /\ tp_gauss = NoGauss
    /\ tp_i_t = 0
    /\ tp_i_b_ref = 0

OnTP ==
    /\ tp_pc = "pot"
    /\ tp_found \in [nb : 1..MaxB, nab : 0..MaxAB]
    /\ tp_h_ks \in H_ks_lists
    /\ tp_k_maxs \in K_maxs_lists
    /\ tp_xgrid = NoGrid
    /\ tp_siegerts = <<>>
    /\ tp_bnds = <<>>
    /\ tp_conts = <<>>
    /\ tp_exacts = <<>>
    /\ tp_exact_tps = <<>>
    /\ tp_i_h = 0
    /\ tp_i_k = 0
    /\ tp_ref = NoTagged
    /\ tp_plots = <<>>
    /\ tp_gauss = NoGauss
    /\ tp_i_t = 0
    /\ tp_i_b_ref = 0

NextTP ==
    \/ TP_Pot
    \/ TP_Siegerts
    \/ TP_Conts
    \/ TP_Exacts
    \/ TP_Gauss
    \/ TP_ExactTps
    \/ TP_LargeTimeRef
    \/ TP_LargeTimeLoop
    \/ TP_CellDone
    \/ TP_KmaxStart("k0_loop", TP_i_t_first, FALSE)
    \/ TP_KmaxLoop("k0_loop", FALSE)
    \/ TP_KmaxStart("k0abs_loop", TP_i_t_first, TRUE)
    \/ TP_KmaxLoop("k0abs_loop", TRUE)
    \/ TP_KmaxStart("klt_loop", TP_i_t, FALSE)
    \/ TP_KmaxLoop("klt_loop", FALSE)
    \/ TP_HkStart("hk_loop")
    \/ TP_HkLoop
    \/ TP_HkStart("hkabs_time")
    \/ TP_HkAbsTime
    \/ TP_HkAbsLoop

(***************************************************************************)
(* Convergence of the exact completeness relation                          *)
(***************************************************************************)
MaxCrStep == 7      \* all_h_k holds wavenumber steps among 1..MaxCrStep tenths
MaxCrK == 24        \* k_max, in tenths

\* the wavenumbers are tenths: 0.1 is the numerator 1 over CR_den
CR_den == 10

\* the quotient taken in exact arithmetic
StepRatio_exact(k_grid, k_grid_ref) ==
    (k_grid[3] - k_grid[2]) \div (k_grid_ref[3] - k_grid_ref[2])

\* h_k = k_grid[2] - k_grid[1]; h_k_ref = k_grid_ref[2] - k_grid_ref[1];
\* int(h_k/h_k_ref), the wavenumbers being floats
StepRatio(k_grid, k_grid_ref) ==
    LET h_k == FSub(Fl(k_grid[3], CR_den), Fl(k_grid[2], CR_den))
        h_k_ref == FSub(Fl(k_grid_ref[3], CR_den), Fl(k_grid_ref[2], CR_den))
    IN FInt(FDiv(h_k, h_k_ref))

\* siegerts.exact_completeness_convergence(test, hk=h_k, kmax=k_max): the grid of
\* wavenumbers (multiples of hk from first to kmax) and, for each of them, the
\* completeness relation summed up to it
ExactCompletenessConvergence(first, hk, kmax) ==
    LET k0 == IF first = "zero" THEN 0 ELSE hk
        n == ((kmax - k0) \div hk) + 1
        k_grid == [j \in 1..n |-> k0 + (j - 1) * hk]
    IN [h |-> hk, k_grid |-> k_grid, CR |-> [j \in 1..n |-> [h |-> hk, k |-> k_grid[j]]]]

\* colors of the plots of the completeness relation
CR_colors ==
    << "#d73027", "#f46d43", "#fdae61", "#fee08b", "#a6d96a", "#66bd63", "#1a9850" >>

\* all_h_k = [1, 0.5, 0.1, 0.05, 0.025, 0.01, 0.001]: a list of steps written in
\* decreasing order, with no more entries than colors has
All_h_k_lists ==
    { Descending(S) : S \in { T \in (SUBSET (1..MaxCrStep)) \ {{}} :
                               Cardinality(T) <= Len(CR_colors) } }

\* [siegerts.exact_completeness_convergence(test_rect, hk=h_k, kmax=k_max)
\*  for h_k in all_h_k]
CR_conv_exacts ==
    [i \in 1..Len(cr_all_h_k) |->
        ExactCompletenessConvergence(cr_first, cr_all_h_k[i], cr_k_max)]

\* the whole list is looped over
CR_coarse_all(results) == results

\* CR_conv_exacts[:-1]
CR_coarse(results) == SubSeq(results, 1, Len(results) - 1)

\* the loop variable of the comprehension is left in i
CR_i_leaked(i, k_grid) == Len(k_grid) - 1

\* i after  i_same = [int(h_k/h_k_ref)*i for i in range(0, len(k_grid))]:
\* the comprehension has a scope of its own
CR_i_after_comprehension(i, k_grid) == i

\* i_same = [int(h_k/h_k_ref)*i for i in range(0, len(k_grid))]
CR_i_same(k_grid, k_grid_ref) ==
    LET ratio == StepRatio(k_grid, k_grid_ref)
    IN [j \in 1..Len(k_grid) |-> ratio * (j - 1)]

CrCurve(cell, color, label, h, k_grid, i_same, k_same) ==
    [cell |-> cell, color |-> color, label |-> label, h |-> h, k_grid |-> k_grid,
     i_same |-> i_same, k_same |-> k_same]

NoResult == [h |-> 0, k_grid |-> <<>>, CR |-> <<>>]

\* siegerts = SWPBasisSet.from_file('siegerts.dat')
CR_Load ==
    /\ cr_pc = "load"
    /\ cr_siegerts' = FromFile(ReadFile("siegerts.dat"), NoNres)
    /\ cr_pc' = "tests"
    /\ UNCHANGED << sseVars, sfVars, tpVars, pots, cr_first, cr_test_rect, cr_all_h_k, cr_k_max,
                    cr_results, cr_n, cr_i, cr_ref, cr_plots >>

\* pot = siegerts[0].potential; l = pot.width
CR_l == pots[cr_siegerts[1].pot].width

\* x_c = 0.0
CR_x_c == Frac(0, 1)

\* the rectangle made twice as wide as the potential
CR_a_wide(l) == Frac(2 * l, 1)

\* a = l/8.
CR_a(l) == Frac(l, 8)

\* test_rect = Rectangular.from_width_and_center(a, x_c)
CR_Tests ==
    /\ cr_pc = "tests"
    /\ cr_test_rect' = Rectangular_from_width_and_center(CR_a(CR_l), CR_x_c)
    /\ cr_pc' = "compute"
    /\ UNCHANGED << sseVars, sfVars, tpVars, pots, cr_first, cr_all_h_k, cr_k_max,
                    cr_siegerts, cr_results, cr_n, cr_i, cr_ref, cr_plots >>

CR_Compute ==
    /\ cr_pc = "compute"
    /\ cr_results' = CR_conv_exacts
    /\ cr_pc' = "ready"
    /\ UNCHANGED << sseVars, sfVars, tpVars, pots, cr_first, cr_test_rect, cr_all_h_k, cr_k_max,
                    cr_siegerts, cr_n, cr_i, cr_ref, cr_plots >>

\* i = -1, before  for k, CR in CR_conv_exacts:
CR_PlotStart ==
    /\ cr_pc = "ready"
    /\ cr_i' = -1
    /\ cr_n' = 0
    /\ cr_plots' = <<>>
    /\ cr_pc' = "plot_loop"
    /\ UNCHANGED << sseVars, sfVars, tpVars, pots, cr_first, cr_test_rect, cr_all_h_k, cr_k_max,
                    cr_siegerts, cr_results, cr_ref >>

\* for k, CR in CR_conv_exacts:
\*     i += 1
\*     plt.plot(k, CR, color=colors[i], label='h_k = '+str(all_h_k[i]))
\* (one iteration)
CR_PlotLoop ==
    /\ cr_pc = "plot_loop"
    /\ IF cr_n >= Len(cr_results)
       THEN /\ cr_pc' = "shown"
            /\ UNCHANGED << cr_i, cr_n, cr_plots >>
       ELSE LET r == cr_results[cr_n + 1]
                i == cr_i + 1
            IN /\ cr_i' = i
               /\ IF PyInRange(CR_colors, i) /\ PyInRange(cr_all_h_k, i)
                  THEN /\ cr_plots' = Append(cr_plots,
                             CrCurve("plot_loop", PyIndex(CR_colors, i),
                                     PyIndex(cr_all_h_k, i), r.h, r.k_grid, <<>>, <<>>))
                       /\ cr_n' = cr_n + 1
                       /\ UNCHANGED cr_pc
                  ELSE /\ cr_pc' = "raised_i"
                       /\ UNCHANGED << cr_n, cr_plots >>
    /\ UNCHANGED << sseVars, sfVars, tpVars, pots, cr_first, cr_test_rect, cr_all_h_k, cr_k_max,
                    cr_siegerts, cr_results, cr_ref >>

\* k_grid_ref, ref = CR_conv_exacts[-1]; h_k_ref = k_grid_ref[2] - k_grid_ref[1]; i = -1
CR_ErrStart(cell) ==
    /\ cr_pc = "ready"
    /\ IF PyInRange(cr_results, -1) /\ PyInRange(PyIndex(cr_results, -1).k_grid, 2)
       THEN /\ cr_ref' = PyIndex(cr_results, -1)
            /\ cr_pc' = cell
       ELSE /\ cr_pc' = "raised"
            /\ UNCHANGED cr_ref
    /\ cr_i' = -1
    /\ cr_n' = 0
    /\ cr_plots' = <<>>
    /\ UNCHANGED << sseVars, sfVars, tpVars, pots, cr_first, cr_test_rect, cr_all_h_k, cr_k_max,
                    cr_siegerts, cr_results >>

\* for k_grid, CR in CR_conv_exacts[:-1]:
\*     i += 1
\*     h_k = k_grid[2] - k_grid[1]
\*     i_same = [int(h_k/h_k_ref)*i for i in range(0, len(k_grid))]
\*     new_ref = ref[i_same]
\*     plt.plot(k_grid, ..., color=colors[i], label='h_k = '+str(all_h_k[i]))
\* (one iteration)
CR_ErrLoop(cell) ==
    /\ cr_pc = cell
    /\ IF cr_n >= Len(CR_coarse(cr_results))
       THEN /\ cr_pc' = "shown"
            /\ UNCHANGED << cr_i, cr_n, cr_plots >>
       ELSE LET r == CR_coarse(cr_results)[cr_n + 1]
                i_same == CR_i_same(r.k_grid, cr_ref.k_grid)
                i == CR_i_after_comprehension(cr_i + 1, r.k_grid)
            IN IF ~ PyInRange(r.k_grid, 2)
               THEN /\ cr_pc' = "raised"
                    /\ cr_i' = cr_i + 1
                    /\ UNCHANGED << cr_n, cr_plots >>
               ELSE IF \E j \in 1..Len(i_same) : ~ PyInRange(cr_ref.CR, i_same[j])
               THEN /\ cr_pc' = "raised"
                    /\ cr_i' = i
                    /\ UNCHANGED << cr_n, cr_plots >>
               ELSE IF ~ (PyInRange(CR_colors, i) /\ PyInRange(cr_all_h_k, i))
               THEN /\ cr_pc' = "raised_i"
                    /\ cr_i' = i
                    /\ UNCHANGED << cr_n, cr_plots >>
               ELSE /\ cr_plots' = Append(cr_plots,
                          CrCurve(cell, PyIndex(CR_colors, i), PyIndex(cr_all_h_k, i),
                                  r.h, r.k_grid, i_same,
                                  [j \in 1..Len(i_same) |->
                                      PyIndex(cr_ref.k_grid, i_same[j])]))
                    /\ cr_i' = i
                    /\ cr_n' = cr_n + 1
                    /\ UNCHANGED cr_pc
    /\ UNCHANGED << sseVars, sfVars, tpVars, pots, cr_first, cr_test_rect, cr_all_h_k, cr_k_max,
                    cr_siegerts, cr_results, cr_ref >>

\* the cell has run; any plotting cell can be run next
CR_CellDone ==
    /\ cr_pc = "shown"
    /\ cr_pc' = "ready"
    /\ UNCHANGED << sseVars, sfVars, tpVars, pots, cr_first, cr_test_rect, cr_all_h_k, cr_k_max,
                    cr_siegerts, cr_results, cr_n, cr_i, cr_ref, cr_plots >>

OffCR ==
    /\ cr_pc = "off"
    /\ cr_first = "zero"
    /\ cr_test_rect = NoRect
    /\ cr_all_h_k = <<>>
    /\ cr_k_max = 0
    /\ cr_siegerts = <<>>
    /\ cr_results = <<>>
    /\ cr_n = 0
    /\ cr_i = 0
    /\ cr_ref = NoResult
    /\ cr_plots = <<>>

OnCR ==
    /\ cr_pc = "load"
    /\ cr_first \in {"zero", "step"}
    /\ cr_test_rect = NoRect
    /\ cr_all_h_k \in All_h_k_lists
    /\ cr_k_max = MaxCrK
    /\ cr_siegerts = <<>>
    /\ cr_results = <<>>
    /\ cr_n = 0
    /\ cr_i = 0
    /\ cr_ref = NoResult
    /\ cr_plots = <<>>

NextCR ==
    \/ CR_Load
    \/ CR_Tests
    \/ CR_Compute
    \/ CR_PlotStart
    \/ CR_PlotLoop
    \/ CR_ErrStart("abs_loop")
    \/ CR_ErrLoop("abs_loop")
    \/ CR_ErrStart("rel_loop")
    \/ CR_ErrLoop("rel_loop")
    \/ CR_CellDone

(***************************************************************************)
(* Specifications                                                          *)
(***************************************************************************)
InitSSE == pots = InitPots /\ OnSSE /\ OffSF /\ OffTP /\ OffCR

InitSF == pots = InitPots /\ OffSSE /\ OnSF /\ OffTP /\ OffCR

InitTP == pots = InitPots /\ OffSSE /\ OffSF /\ OnTP /\ OffCR

InitCR == pots = InitPots /\ OffSSE /\ OffSF /\ OffTP /\ OnCR

Init == InitSSE \/ InitSF \/ InitTP \/ InitCR

Next == NextSSE \/ NextSF \/ NextTP \/ NextCR

SpecSSE == InitSSE /\ [][NextSSE]_vars

SpecSF == InitSF /\ [][NextSF]_vars

SpecTP == InitTP /\ [][NextTP]_vars

SpecCR == InitCR /\ [][NextCR]_vars

Spec == Init /\ [][Next]_vars

(***************************************************************************)
(* Properties                                                              *)
(***************************************************************************)
\* the basis sets held at the moment
HeldBases ==
    { g_siegerts, sse_siegerts, sse_cont, sse_exact,
      sf_siegerts, sf_bnds_abnds, sf_res, sf_ares, tp_siegerts, tp_bnds }
    \cup { tp_conts[i].v : i \in 1..Len(tp_conts) }
    \cup { tp_exacts[i].v : i \in 1..Len(tp_exacts) }

AllOf(b, p) == \A i \in 1..Len(b) : b[i].pot = p

\* C1: every state of every basis set built by from_file, find_Siegert_states,
\* find_continuum_states, + and the type filters refers to the potential of the
\* basis set (basis.potential, basis[0].potential), and the basis sets of one study
\* all refer to the one potential of that study.
C1_SamePotential ==
    /\ \A b \in HeldBases : b # <<>> => AllOf(b, BasisPotential(b))
    /\ \A b \in { sse_siegerts, bounds(sse_siegerts), sse_cont, sse_exact } :
          AllOf(b, sse_args.filename)
    /\ sse_potential # "none" => sse_potential = sse_args.filename
    /\ \A b \in { sf_siegerts, sf_bnds_abnds, sf_res, sf_ares } : AllOf(b, "siegerts.dat")
    /\ \A b \in { tp_siegerts, tp_bnds } : AllOf(b, "pot")
    /\ \A i \in 1..Len(tp_exacts) : AllOf(tp_exacts[i].v, "pot")
    /\ \A i \in 1..Len(tp_conts) : AllOf(tp_conts[i].v, "pot")

C1_Witness ==
    /\ sse_pc = "exact_tp"
    /\ sse_args.filename = "other.dat"
    /\ bounds(sse_exact) # <<>>
    /\ continuum(sse_exact) # <<>>

\* C2: no step of the notebooks (grid assignment, concatenation, filtering,
\* propagation, strength-function evaluation) changes the width or the depth of
\* a potential.
C2_PotentialImmutable == [][pots' = pots]_vars

C2_Witness ==
    /\ sse_pc = "done"
    /\ \A i \in 1..Len(sse_siegerts) : sse_siegerts[i].grid = sse_xgrid
    /\ sse_tp["exact_S"] # <<>>
    /\ pots[sse_potential].width = sse_l

IsConcat(c, a, b) ==
    /\ Len(c) = Len(a) + Len(b)
    /\ \A j \in 1..Len(a) : c[j] = a[j]
    /\ \A j \in 1..Len(b) : c[Len(a) + j] = b[j]

\* C3: a + b holds the states of a followed by the states of b, in their order,
\* and has len(a) + len(b) states: exact = cont + siegerts.bounds,
\* bnds_abnds = siegerts.bounds + siegerts.antibounds, exacts[i] = conts[i] + bnds.
C3_Concatenation ==
    /\ sse_pc \in {"exact_tp", "if_exact", "if_MLE", "if_Ber", "done"}
          => IsConcat(sse_exact, sse_cont, bounds(sse_siegerts))
    /\ sf_pc \notin {"off", "load", "tests", "kgrid", "decomp"}
          => IsConcat(sf_bnds_abnds, bounds(sf_siegerts), antibounds(sf_siegerts))
    /\ \A i \in 1..Len(tp_exacts) : IsConcat(tp_exacts[i].v, tp_conts[i].v, tp_bnds)

C3_Witness ==
    /\ sse_pc = "exact_tp"
    /\ Len(sse_cont) >= 2
    /\ Len(bounds(sse_siegerts)) >= 2
    /\ sse_exact[1] = sse_cont[1]
    /\ sse_exact[Len(sse_exact)] = bounds(sse_siegerts)[Len(bounds(sse_siegerts))]

TypeIdx(B, ty) == { i \in 1..Len(B) : B[i].type = ty }

\* the index in B of its j-th state of type ty
NthIdx(B, ty, j) ==
    CHOOSE i \in TypeIdx(B, ty) : Cardinality({ m \in TypeIdx(B, ty) : m <= i }) = j

IsFilter(F, B, ty) ==
    /\ Len(F) = Cardinality(TypeIdx(B, ty))
    /\ \A j \in 1..Len(F) : F[j] = B[NthIdx(B, ty, j)]

FiltersPartition(B) ==
    /\ IsFilter(bounds(B), B, "b")
    /\ IsFilter(antibounds(B), B, "ab")
    /\ IsFilter(resonants(B), B, "r")
    /\ IsFilter(antiresonants(B), B, "ar")
    /\ IsFilter(continuum(B), B, "c")
    /\ Len(bounds(B)) + Len(antibounds(B)) + Len(resonants(B)) + Len(antiresonants(B))
          + Len(continuum(B)) = Len(B)
    /\ \A i \in 1..Len(B) : Cardinality({ ty \in Types : i \in TypeIdx(B, ty) }) = 1

\* C4: a type filter returns the states of that type in their original order; the
\* five filters share no state and together hold every state once; res, ares and
\* bnds of the notebooks are the resonant, antiresonant and bound states of siegerts.
C4_Filters ==
    /\ \A B \in HeldBases : FiltersPartition(B)
    /\ sf_pc \notin {"off", "load", "tests", "kgrid", "decomp"}
          => /\ IsFilter(sf_res, sf_siegerts, "r")
             /\ IsFilter(sf_ares, sf_siegerts, "ar")
    /\ tp_pc \notin {"off", "pot", "siegerts"} => IsFilter(tp_bnds, tp_siegerts, "b")

C4_Witness ==
    /\ sf_pc = "b_a_gauss"
    /\ Len(sf_res) >= 2
    /\ Len(sf_ares) >= 2
    /\ Len(sf_bnds_abnds) >= 2
    /\ sf_siegerts[1].type = "b"

Uniform(b, h, kmax) ==
    /\ \A i \in 1..(Len(b) - 1) : b[i + 1].k - b[i].k = h
    /\ \A i \in 1..Len(b) : b[i].k > 0 /\ b[i].k <= kmax

OfParity(b, par) == SelectSeq(b, LAMBDA s : s.par = par)

TimesOf(tp) == [i \in 1..Len(tp) |-> tp[i].t]

\* C6: within one call of SSE_errors the exact propagation and every Siegert
\* expansion computed are evaluated on the time_grid argument of the call, which
\* stays what it was.
C6_SameTimeGrid ==
    \A kind \in Kinds : sse_tp[kind] # <<>> => TimesOf(sse_tp[kind]) = sse_args.time_grid

C6_Witness ==
    /\ sse_pc = "done"
    /\ \A kind \in Kinds : sse_tp[kind] # <<>>
    /\ g_time_grid # sse_args.time_grid

TypeInv == \A b \in HeldBases : \A i \in 1..Len(b) : b[i].type \in Types

KeepsTypes(b, c) ==
    (b # <<>> /\ Len(c) = Len(b)) => \A i \in 1..Len(b) : c[i].type = b[i].type

TypeFrame ==
    /\ KeepsTypes(g_siegerts, g_siegerts')
    /\ KeepsTypes(sse_siegerts, sse_siegerts')
    /\ KeepsTypes(sse_cont, sse_cont')
    /\ KeepsTypes(sse_exact, sse_exact')
    /\ KeepsTypes(sf_siegerts, sf_siegerts')
    /\ KeepsTypes(tp_siegerts, tp_siegerts')
    /\ KeepsTypes(tp_bnds, tp_bnds')

\* C7: every state has one of the five types bound, antibound, resonant,
\* antiresonant, continuum, and no step (concatenation, filtering, discretization
\* on a grid, propagation) changes the type of a state of a basis set.
C7_Types == [](TypeInv) /\ [][TypeFrame]_vars

C7_Witness ==
    /\ sse_pc = "done"
    /\ sse_siegerts # <<>>
    /\ \A i \in 1..Len(sse_siegerts) : sse_siegerts[i].grid # NoGrid
    /\ \E i, j \in 1..Len(sse_siegerts) : sse_siegerts[i].type # sse_siegerts[j].type

Labels(out) == LET t == SelectSeq(out, LAMBDA e : e.kind = "title")
               IN [i \in 1..Len(t) |-> t[i].label]

Ended(out) == Len(SelectSeq(out, LAMBDA e : e.kind = "end"))

Chosen(ch) ==
    (IF ch.exact THEN << "Exact Siegert" >> ELSE <<>>)
    \o (IF ch.MLE THEN << "MLE" >> ELSE <<>>)
    \o (IF ch.Ber THEN << "Berggren" >> ELSE <<>>)

\* C9: when a call of SSE_errors is over, the error tables printed are those of
\* the expansions whose flag in choice is true, each whole, in the order exact
\* Siegert, MLE, Berggren; an expansion is computed exactly when its flag is true;
\* the exact propagation is computed.
C9_ChosenTables ==
    sse_pc \in {"done", "raised"}
       => /\ Labels(sse_out) = Chosen(sse_args.choice)
          /\ Ended(sse_out) = Len(Chosen(sse_args.choice))
          /\ (sse_tp["exact_S"] # <<>>) <=> sse_args.choice.exact
          /\ (sse_tp["MLE"] # <<>>) <=> sse_args.choice.MLE
          /\ (sse_tp["Ber"] # <<>>) <=> sse_args.choice.Ber
          /\ sse_tp["exact"] # <<>>

\* C10: in the large-time absolute-error cell the reference exact_tps[i_b_ref] is
\* the propagation computed with the basis set built from the smallest h_k and the
\* largest k_max, and every curve of the cell is drawn against it.
C10_Reference ==
    LET h == SetMin(Range(tp_h_ks))
        k == SetMax(Range(tp_k_maxs))
        best == Concat(FindContinuumStates("pot", k, h, TRUE, tp_xgrid), tp_bnds)
        IsBest(ref) == /\ ref.h = h
                       /\ ref.k = k
                       /\ ref.v = Propagation("exact", best, tp_time_grid)
    IN /\ tp_pc = "lt_loop" => IsBest(tp_ref)
       /\ \A i \in 1..Len(tp_plots) :
             tp_plots[i].cell = "large_time_abs" => IsBest(tp_plots[i].ref)

C10_Witness ==
    /\ tp_pc = "shown"
    /\ Len(tp_h_ks) >= 2
    /\ Len(tp_k_maxs) >= 2
    /\ Len(tp_plots) >= 2
    /\ tp_plots[1].cell = "large_time_abs"
    /\ tp_ref.h < tp_h_ks[1]
    /\ tp_ref.k > tp_k_maxs[1]

\* the propagation computed with the basis set built from the step h and the cutoff k
TpBuiltFrom(tp, h, k) ==
    /\ tp.h = h
    /\ tp.k = k
    /\ tp.v = Propagation("exact",
                 Concat(FindContinuumStates("pot", k, h, TRUE, tp_xgrid), tp_bnds),
                 tp_time_grid)

\* the curves a cell has plotted for the time of index t with the label h_k = h
CurvesOf(cell, t, h) ==
    { i \in 1..Len(tp_plots) :
         tp_plots[i].cell = cell /\ tp_plots[i].i_t = t /\ tp_plots[i].lab_h = h }

MostCouples(test) == loop_list(test)[Len(loop_list(test))]

\* C12: when the file holds at least as many resonant couples as the longest sum of
\* the plotting loops asks for, the number shown after N_res = in the label of each
\* curve is the number of resonant couples summed in that curve, for both test
\* functions.
C12_Labels ==
    (\A test \in Tests : Len(sf_res) >= MostCouples(test))
       => \A i \in 1..Len(sf_plots) : sf_plots[i].label = sf_plots[i].ncouples

\* the rows print_errors has printed for the expansion kd, in order
RowsOf(kd) == SelectSeq(sse_out, LAMBDA e : e.kind = "row" /\ e.label = kd)

\* C13: when a call of SSE_errors is over, the table of each expansion it computed
\* has one row per time of the time_grid argument, and row i shows time_grid[i] of
\* the argument next to the errors between exact[i] and siegert_exp[i], whatever
\* the module-level time_grid holds.
C13_RowsOfArgument ==
    sse_pc \in {"done", "raised"}
       => \A kd \in {"exact_S", "MLE", "Ber"} :
             sse_tp[kd] # <<>>
                => /\ Len(RowsOf(kd)) = Len(sse_args.time_grid)
                   /\ \A i \in 1..Len(RowsOf(kd)) :
                         /\ RowsOf(kd)[i].t = sse_args.time_grid[i]
                         /\ RowsOf(kd)[i].te = sse_args.time_grid[i]
                         /\ RowsOf(kd)[i].ts = sse_args.time_grid[i]

\* C14: in the cell of the large-time absolute errors no curve is the difference
\* of the reference with itself: the propagation taken as the reference is not
\* plotted.
C14_ReferenceSkipped ==
    \A i \in 1..Len(tp_plots) :
       tp_plots[i].cell = "large_time_abs" => tp_plots[i].tp # tp_plots[i].ref

\* the cells whose loops run over h_ks and k_maxs
KmaxCells == {"k0_loop", "k0abs_loop", "klt_loop", "large_time_abs"}

\* C15: once exact_tps is computed, exact_tps[i_h*len(k_maxs)+i_k] is the
\* propagation of the basis set built from h_ks[i_h] and k_maxs[i_k]; the map
\* (i_h, i_k) -> i_b is one-to-one from the pairs onto the indices of exact_tps;
\* no index of a plotting loop is out of range and each curve of the loops over
\* h_ks and k_maxs shows the propagation of the (h_k, k_max) of its label.
C15_FlatIndex ==
    LET nh == Len(tp_h_ks)
        nk == Len(tp_k_maxs)
        Pairs == (0..(nh - 1)) \X (0..(nk - 1))
        flat(pr) == pr[1] * nk + pr[2]
    IN /\ tp_exact_tps # <<>>
          => /\ Len(tp_exact_tps) = nh * nk
             /\ \A pr \in Pairs :
                   /\ flat(pr) \in 0..(Len(tp_exact_tps) - 1)
                   /\ TpBuiltFrom(tp_exact_tps[flat(pr) + 1],
                                  tp_h_ks[pr[1] + 1], tp_k_maxs[pr[2] + 1])
             /\ \A pr, qr \in Pairs : flat(pr) = flat(qr) => pr = qr
             /\ \A i \in 0..(Len(tp_exact_tps) - 1) : \E pr \in Pairs : flat(pr) = i
       /\ tp_pc # "raised"
       /\ \A i \in 1..Len(tp_plots) :
             tp_plots[i].cell \in KmaxCells
                => /\ tp_plots[i].i_b \in 0..(Len(tp_exact_tps) - 1)
                   /\ tp_plots[i].tp = tp_exact_tps[tp_plots[i].i_b + 1]
                   /\ TpBuiltFrom(tp_plots[i].tp, tp_plots[i].lab_h, tp_plots[i].lab_k)

C15_Witness ==
    /\ tp_pc = "shown"
    /\ Len(tp_h_ks) >= 2
    /\ Len(tp_k_maxs) >= 2
    /\ Len(tp_plots) = Len(tp_h_ks) * Len(tp_k_maxs)
    /\ tp_plots[1].cell = "k0_loop"

\* C16: in the cell of the convergence with respect to h_k every curve, the first
\* one included, shows the propagation of the basis set built from the h_k of its
\* label and the last k_max, which is the k_max of its label; for each time gone
\* through every h_k has exactly one curve.
C16_HighestKmax ==
    LET klast == PyIndex(tp_k_maxs, -1)
    IN /\ \A i \in 1..Len(tp_plots) :
             tp_plots[i].cell = "hk_loop"
                => /\ tp_plots[i].lab_k = klast
                   /\ TpBuiltFrom(tp_plots[i].tp, tp_plots[i].lab_h, klast)
       /\ tp_pc = "hk_loop"
          => \A t \in 0..(tp_i_t - 1) : \A j \in 1..Len(tp_h_ks) :
                Cardinality(CurvesOf("hk_loop", t, tp_h_ks[j])) = 1

C16_Witness ==
    /\ tp_pc = "hk_loop"
    /\ tp_i_t = Len(tp_time_grid)
    /\ Len(tp_h_ks) >= 2
    /\ Len(tp_k_maxs) >= 2
    /\ Len(tp_plots) = Len(tp_time_grid) * Len(tp_h_ks)
    /\ tp_plots[1].lab_h = tp_h_ks[1]
    /\ tp_plots[1].i_b = Len(tp_k_maxs) - 1

\* C17: every element of exacts is the continuum states found with even_only=True
\* for its (h_k, k_max), followed by the bound states of the potential: it holds no
\* odd continuum state and no antibound, resonant or antiresonant state; the test
\* function propagated with them is centred at x_c = 0.
C17_EvenAndBound ==
    /\ \A i \in 1..Len(tp_exacts) :
          LET e == tp_exacts[i]
          IN /\ e.v = Concat(FindContinuumStates("pot", e.k, e.h, TRUE, tp_xgrid),
                             bounds(tp_siegerts))
             /\ \A j \in 1..Len(e.v) :
                   /\ e.v[j].type \in {"c", "b"}
                   /\ e.v[j].type = "c" => e.v[j].par = "e"
                   /\ (e.v[j].type = "b" /\ j < Len(e.v)) => e.v[j + 1].type = "b"
    /\ tp_exact_tps # <<>> => tp_gauss.x_c = 0

C17_Witness ==
    /\ tp_exact_tps # <<>>
    /\ antibounds(tp_siegerts) # <<>>
    /\ \E i \in 1..Len(tp_exacts) :
          /\ Len(continuum(tp_exacts[i].v)) >= 2
          /\ bounds(tp_exacts[i].v) # <<>>

\* the cells plotting the errors of the completeness relation
ErrCells == {"abs_loop", "rel_loop"}

\* the curves of the running cell that show the result computed with the step h
CrCurvesOf(h) == { n \in 1..Len(cr_plots) : cr_plots[n].h = h }

\* C18: in the cells of the absolute and of the relative error, the reference is
\* the last element of CR_conv_exacts, computed with the last and smallest step of
\* all_h_k; no curve shows the reference, and when the loop is over every other
\* result has exactly one curve.
C18_Reference ==
    /\ cr_pc \in ErrCells
          => /\ cr_ref = cr_results[Len(cr_results)]
             /\ cr_ref.h = cr_all_h_k[Len(cr_all_h_k)]
             /\ cr_ref.h = SetMin(Range(cr_all_h_k))
    /\ \A n \in 1..Len(cr_plots) :
          cr_plots[n].cell \in ErrCells
             => /\ cr_plots[n].h # cr_ref.h
                /\ Cardinality(CrCurvesOf(cr_plots[n].h)) = 1
    /\ (cr_pc = "shown" /\ (cr_plots = <<>> \/ cr_plots[1].cell \in ErrCells))
          => /\ Len(cr_plots) = Len(cr_results) - 1
             /\ \A n \in 1..(Len(cr_results) - 1) :
                   Cardinality(CrCurvesOf(cr_results[n].h)) = 1

C18_Witness ==
    /\ cr_pc = "shown"
    /\ Len(cr_plots) >= 3
    /\ cr_plots[1].cell = "rel_loop"
    /\ cr_ref.h < cr_plots[3].h

\* the grids of a curve and of the reference are as the alignment supposes: the
\* step is a multiple of the reference step, and both grids start at the same
\* wavenumber and end at the same one
Alignable(c) ==
    /\ c.h % cr_ref.h = 0
    /\ c.k_grid[1] = cr_ref.k_grid[1]
    /\ c.k_grid[Len(c.k_grid)] = cr_ref.k_grid[Len(cr_ref.k_grid)]

C20_ColourAndLabel ==
    /\ cr_pc # "raised_i"
    /\ Len(cr_plots) <= Len(CR_colors)
    /\ Len(cr_plots) <= Len(cr_all_h_k)
    /\ \A n \in 1..Len(cr_plots) :
          /\ cr_plots[n].color = CR_colors[n]
          /\ cr_plots[n].label = cr_all_h_k[n]
          /\ cr_plots[n].h = cr_plots[n].label
    /\ cr_pc \in (ErrCells \cup {"plot_loop"})
          => /\ cr_i = cr_n - 1
             /\ cr_i < Len(CR_colors)
             /\ cr_i < Len(cr_all_h_k)

C20_Witness ==
    /\ cr_pc = "shown"
    /\ Len(cr_all_h_k) = Len(CR_colors)
    /\ Len(cr_plots) = Len(CR_colors) - 1
    /\ cr_plots[1].cell = "abs_loop"
    /\ Len(cr_plots[1].k_grid) # Len(cr_plots)

\* the states of the decomposition, in the order bound+antibound, then couple
\* after couple
RECURSIVE CouplesOf(_, _)
CouplesOf(res, ares) ==
    IF res = <<>> \/ ares = <<>> THEN <<>>
    ELSE << Head(res), Head(ares) >> \o CouplesOf(Tail(res), Tail(ares))

Decomposition == sf_bnds_abnds \o CouplesOf(sf_res, sf_ares)

TimesIn(s, b) == Cardinality({ q \in 1..Len(b) : b[q] = s })

Decomposed == sf_pc \notin {"off", "load", "tests", "kgrid", "decomp"}

OnGrid(b, g) == \A i \in 1..Len(b) : b[i].grid = g

\* the points of g are nx points from -l/2 to l/2, dx apart
IsGridOf(g, l, nx, dx) ==
    /\ Len(g.pts) = nx
    /\ g.pts[1] * 2 = (0 - l) * g.den
    /\ g.pts[nx] * 2 = l * g.den
    /\ \A i \in 1..(nx - 1) : g.pts[i + 1] - g.pts[i] = dx

\* C22: inside SSE_errors, once the Siegert states are discretized, xgrid has nx
\* points dx apart over the width of the potential, every state of siegerts, of
\* cont and of exact has xgrid as its grid, and every wavefunction of every
\* propagation computed has nx values, so that exact[i] and siegert_exp[i] have
\* the same length in print_errors.
C22_SameGrid ==
    sse_pc \in {"cont", "exact", "exact_tp", "if_exact", "if_MLE", "if_Ber", "done"} =>
        /\ IsGridOf(sse_xgrid, sse_l, sse_args.nx, sse_dx)
        /\ sse_l = pots[sse_potential].width
        /\ OnGrid(sse_siegerts, sse_xgrid)
        /\ OnGrid(sse_cont, sse_xgrid)
        /\ OnGrid(sse_exact, sse_xgrid)
        /\ \A kd \in Kinds : \A i \in 1..Len(sse_tp[kd]) : sse_tp[kd][i].nx = sse_args.nx

C22_Witness ==
    /\ sse_pc = "done"
    /\ sse_args.nx = MaxNx
    /\ sse_args.choice.exact /\ sse_args.choice.MLE /\ sse_args.choice.Ber
    /\ Len(sse_tp["exact"]) >= 2
    /\ Len(sse_tp["Ber"]) >= 2
    /\ Len(bounds(sse_siegerts)) >= 2
    /\ Len(sse_cont) >= 2
    /\ Len(sse_exact) = Len(sse_cont) + Len(bounds(sse_siegerts))

SameStates(a, b) == Len(a) = Len(b) /\ \A i \in 1..Len(a) : a[i].v = b[i].v

\* C23: the cell exacts = [cont + bnds for cont in conts] leaves bnds and every
\* element of conts holding the states they held before, and every element of
\* exacts ends with those same bound states; inside SSE_errors the statement
\* exact = cont + siegerts.bounds leaves siegerts and cont as they were.
C23_OperandsUnchanged ==
    [][/\ tp_pc = "exacts" =>
            /\ tp_bnds' = tp_bnds
            /\ SameStates(tp_conts', tp_conts)
            /\ Len(tp_exacts') = Len(tp_conts)
            /\ \A i \in 1..Len(tp_conts) :
                  tp_exacts'[i].v = tp_conts[i].v \o tp_bnds
       /\ sse_pc = "exact" =>
            /\ sse_siegerts' = sse_siegerts
            /\ sse_cont' = sse_cont
            /\ sse_pc' = "exact_tp" => sse_exact' = sse_cont \o bounds(sse_siegerts)]_vars

C23_Witness ==
    /\ tp_pc = "gauss"
    /\ Len(tp_conts) >= 2
    /\ Len(tp_exacts) = Len(tp_conts)
    /\ Len(tp_bnds) >= 2
    /\ \A i \in 1..Len(tp_conts) : Len(tp_conts[i].v) >= 1

\* the same inside SSE_errors
C23_Witness_SSE ==
    /\ sse_pc = "exact_tp"
    /\ Len(bounds(sse_siegerts)) >= 2
    /\ Len(sse_cont) >= 2
    /\ Len(sse_exact) = Len(sse_cont) + Len(bounds(sse_siegerts))

\* what a call of SSE_errors with the arguments a prints, computed from a, the
\* data file and the module-level time_grid alone; a.by_default: choice left out
TablesOf(a) ==
    LET ch == IF a.by_default THEN SSE_choice_default ELSE a.choice
        file == FromFile(ReadFile(a.filename), a.nres)
        xg == Linspace(InitPots[file[1].pot].width, a.nx)
        sieg == [i \in 1..Len(file) |-> WithGrid(file[i], xg)]
        cont == FindContinuumStates(file[1].pot, a.k_max, a.h_k, FALSE, xg)
        etp == Propagation("exact", cont \o bounds(sieg), a.time_grid)
        pr(kd) == print_errors(etp, Propagation(kd, sieg, a.time_grid),
                               xg.pts[2] - xg.pts[1])
        tab(kd, label) == << Entry("title", label, 0, 0, 0) >> \o pr(kd).lines
        t1 == IF ch.exact THEN tab("exact_S", "Exact Siegert") ELSE <<>>
        ok1 == ch.exact => pr("exact_S").ok
        t2 == IF ok1 /\ ch.MLE THEN tab("MLE", "MLE") ELSE <<>>
        ok2 == ok1 /\ (ch.MLE => pr("MLE").ok)
        t3 == IF ok2 /\ ch.Ber THEN tab("Ber", "Berggren") ELSE <<>>
        ok3 == ok2 /\ (ch.Ber => pr("Ber").ok)
    IN [lines |-> t1 \o t2 \o t3, ok |-> ok3]

\* C24: a step of a call of SSE_errors, its start and its end included, leaves
\* the default dictionary of choice, the module-level siegerts, potential and
\* time_grid and the potentials as they are; and what a call has printed when it
\* ends is what its arguments, the data file and the module-level time_grid
\* give, whatever calls came before it.
C24_Independent ==
    [][/\ (sse_pc # "idle" \/ sse_pc' # "idle") =>
            /\ g_choice_default' = g_choice_default
            /\ g_choice_default = SSE_choice_default
            /\ g_siegerts' = g_siegerts
            /\ g_potential' = g_potential
            /\ g_time_grid' = g_time_grid
            /\ pots' = pots
       /\ sse_pc' \in {"done", "raised"} =>
            /\ sse_out' = TablesOf(sse_args').lines
            /\ (sse_pc' = "done") = TablesOf(sse_args').ok]_vars

\* a call made without choice has returned after printing its three tables
C24_Witness ==
    /\ sse_pc = "done"
    /\ sse_args.by_default
    /\ Len(sse_out) >= 9
    /\ g_choice_default = SSE_choice_default

\* |x_c| + a/2 <= l/2 for the rectangle r and the width l, in exact fractions
InRegionII(r, l) ==
    LET a == r.width
        c == r.center
        absc == IF c[1] < 0 THEN 0 - c[1] ELSE c[1]
    IN 2 * absc * a[2] + a[1] * c[2] <= l * c[2] * a[2]

\* C25: the rectangular test function of the completeness study (width l/8) and
\* that of the strength-function study (width l/2), both centred at 0, lie
\* inside the potential of the study: |x_c| + a/2 <= l/2, with l the width of
\* that potential.
C25_RegionII ==
    /\ cr_pc \notin {"off", "load", "tests"} =>
          /\ cr_test_rect.center[1] = 0
          /\ cr_test_rect.width[1] * 8 = pots[cr_siegerts[1].pot].width * cr_test_rect.width[2]
          /\ InRegionII(cr_test_rect, pots[cr_siegerts[1].pot].width)
    /\ sf_pc \notin {"off", "load", "tests"} =>
          /\ sf_test_rect.center[1] = 0
          /\ sf_test_rect.width[1] * 2 = pots[sf_siegerts[1].pot].width * sf_test_rect.width[2]
          /\ InRegionII(sf_test_rect, pots[sf_siegerts[1].pot].width)

C25_Witness ==
    /\ cr_pc = "ready"
    /\ cr_test_rect.width[1] > 0
    /\ Len(cr_results) >= 2

\* the same in the strength-function study
C25_Witness_Stf ==
    /\ sf_pc = "done"
    /\ sf_test_rect.width[1] > 0

\* the multiples m*h_k with h_k <= m*h_k < k_max, in twentieths
MultiplesBelow == { m * Stf_h_k : m \in 1..Stf_k_max } \cap (1..(Stf_k_max - 1))

\* C26: once kgrid is built it starts at h_k, each point is h_k above the one
\* before, and its points are exactly the multiples of h_k that are strictly
\* below k_max: neither 0 nor k_max is among them.
C26_Kgrid ==
    sf_pc \notin {"off", "load", "tests", "kgrid"} =>
        /\ sf_kgrid[1] = Stf_h_k
        /\ \A i \in 1..(Len(sf_kgrid) - 1) : sf_kgrid[i + 1] - sf_kgrid[i] = Stf_h_k
        /\ Range(sf_kgrid) = MultiplesBelow
        /\ 0 \notin Range(sf_kgrid)
        /\ Stf_k_max \notin Range(sf_kgrid)

C26_Witness ==
    /\ sf_pc = "decomp"
    /\ Len(sf_kgrid) = 199
    /\ sf_kgrid[199] = 199 * Stf_h_k

\* the curves of a test function come in the order reference, bound states
\* only, then one per element of the loop's list; the gaussian ones come first
LoopIndex(p) == IF sf_plots[p].test = "gauss" THEN p - 2 ELSE p - 7

\* C27: no plotting cell raises; the curve drawn for the element i of either
\* loop has the colour colors[i//2], an index within the list of colours, and,
\* when the basis set holds at least 8 resonant couples, the sum it shows has
\* exactly i couples.
C27_InRange ==
    /\ sf_pc # "raised"
    /\ \A t \in Tests : \A q \in 1..Len(loop_list(t)) :
          (loop_list(t)[q] \div 2) + 1 \in 1..Len(colors(t))
    /\ \A p \in 1..Len(sf_plots) :
          LoopIndex(p) >= 1 =>
             LET c == sf_plots[p]
                 i == loop_list(c.test)[LoopIndex(p)]
             IN /\ c.color = colors(c.test)[(i \div 2) + 1]
                /\ Len(sf_res) >= 8 => c.ncouples = i

C27_Witness ==
    /\ sf_pc = "done"
    /\ Len(sf_res) >= 8
    /\ Len(sf_plots) = 11
    /\ sf_plots[11].ncouples = 8
    /\ sf_plots[11].color = "#c7e9b4"
    /\ sf_plots[5].ncouples = 6

====
